---------------------------- MODULE Spec2Model ----------------------------
(***************************************************************************)
(* A model of the DGX-Desktop-Remote transport and session engine:         *)
(*   - the server's session supervisor (dgx-service/src/server.py),        *)
(*   - the client's connection manager (pc-application/src/network/        *)
(*     connection.py) and transfer worker (transfer/transfer_worker.py).   *)
(* Each subsystem has its own variables, its own Init and Next and its own *)
(* specification; the variables of the other subsystems stay idle.         *)
(***************************************************************************)
EXTENDS Integers, Sequences, FiniteSets, TLC

(***************************************************************************)
(* Bounds of the model.                                                    *)
(***************************************************************************)
\* Connections the three data listeners accept in one run.
MaxConns == 3
\* Negotiation requests handled on the discovery port in one run.
MaxNeg == 1
\* Calls the UI makes on the client's input API in one run.
MaxUiCalls == 3
\* Distinct pointer positions the UI reports.
MaxPos == 2
\* Items of the TransferJob the worker processes.
MaxItems == 2
\* Distinct SHA-256 digests (0 stands for the empty string).
MaxDigest == 2
\* Length of the longest uploaded file, in bytes.
MaxFile == 3
\* Distinct byte values in a file.
MaxByte == 2
\* Envelopes each writer thread sends on its socket.
MaxEnvelopes == 1
\* Frames the capture thread sends, and the largest JPEG length it produces.
MaxFrames == 2
MaxJpeg == 3
\* Requests the control loop serves in one session.
MaxRequests == 2
\* Negotiations answered with a triplet.
MaxReplies == 2
\* Connection attempts of the client, and calls made on one connection.
MaxAttempts == 6
MaxCalls == 2
\* Unsolicited pushes the server writes on one control socket.
MaxPushes == 2
\* Polls of the resolution watcher.
MaxTicks == 3
\* Capture threads created over the life of the service.
MaxThreads == 3
\* Lines a client writes on one control connection.
MaxLines == 3
\* Input envelopes a client writes on one input connection.
MaxEvents == 3
\* Length of a local file handed to the converter.
MaxText == 6
\* Calls of rpc(), send_file() and get_file() made on one connection.
MaxLockCalls == 3
\* Connect attempts (a worker and its DGXConnection) that exist at a time.
MaxWorkers == 2

\* screen_capture.py: max(1, min(fps, 120)) and max(40, min(quality, 100)).
FPS_MIN == 1
FPS_MAX == 120
QUALITY_MIN == 40
QUALITY_MAX == 100
\* main_window.py: min(60, base * (2 ** min(fail_count - 1, 4))), base = max(3, ...).
BACKOFF_CAP == 60
BACKOFF_FLOOR == 3
BACKOFF_DOUBLINGS == 4
\* server.py: the fixed port of the negotiation listener.
DISCOVERY_PORT == 22000
\* resolution_monitor.py: the size _get_xrandr_current returns when the
\* query fails or its output has no match.
\* server.py _recv_line: maxlen, the longest line it returns (131072 in
\* the source, scaled down).
LINE_MAX == 2
\* file_converter.py: src.read(65536), the chunk the CRLF strip works on;
\* file_analyzer.py: fh.read(262144), the part scanned for CRLF (scaled
\* down, same ratio).
STRIP_CHUNK == 2
SCAN_LIMIT == 8
FALLBACK_W == 1920
FALLBACK_H == 1080

\* connection.py: `size > 20_000_000`, scaled to the modelled JPEG lengths.
FRAME_LIMIT == 2
\* struct.pack(">I", ...): the frame header's length in bytes.
HEADER_LEN == 4

(***************************************************************************)
(* Program constants, scaled to the model's file sizes.                    *)
(***************************************************************************)
\* server.CHUNK / protocol.CHUNK_SIZE: 65536 in the source.  The model counts
\* in units that make a file of MaxFile bytes span more than one chunk.
CHUNK == 2

VARIABLES
    \* ---- server supervisor (DGXService / ClientSession) ----
    sock,        \* accepted sockets: [kind, srv (open at the server), peer (open at the client)]
    sess,        \* every ClientSession constructed so far
    svcSession,  \* DGXService._session (0 = None, else an index of sess)
    pendingVid,  \* DGXService._pending_vid (0 = None)
    pendingInp,  \* DGXService._pending_inp (0 = None)
    capRunning,  \* ScreenCapture._running
    capCb,       \* ScreenCapture._cb: the session whose _on_frame is called (0 = None)
    inThreads,   \* live _input_loop threads: [s, pc, c]
    negLog,      \* replies sent by _handle_negotiation, with what the supervisor held then
    \* ---- client input pipeline (DGXConnection) ----
    mouseSlot,   \* _mouse_x/_mouse_y: [pos, seq]; seq numbers the send_mouse_move call
    mouseDirty,  \* _mouse_dirty
    flusher,     \* the MouseFlusher thread: [pc, slot] (its locals x, y)
    inputWire,   \* envelopes written to the input socket, in order
    uiCalls,     \* number of input API calls made by the UI so far
    connected,   \* DGXConnection._connected
    inputSockOk, \* the input socket still accepts writes
    \* ---- transfer worker (TransferWorker) ----
    items,       \* job.items: [status, sha256_src, sha256_dst, integrity_ok, shown, placed]
    worker,      \* the worker thread: [pc, idx, result]
    autoPlace,   \* TransferWorker._auto_place
    abortFlag,   \* TransferWorker._abort
    \* ---- file upload on the control channel ----
    c2s,         \* control socket, client to server: lines and payload bytes in flight
    c2sClosed,   \* the client has closed its end of the control socket
    s2c,         \* control socket, server to client: response lines in flight
    srv,         \* ClientSession.run / _handle_file_receive: position and locals
    up,          \* the uploading client: position and locals
    \* ---- concurrent writers of the control and input sockets ----
    wire,        \* bytes written so far to each socket: "control" (server) and "input" (client)
    writers,     \* per writer thread: [buf (bytes sendall has still to write), sent]
    pushLock,    \* holder of ClientSession._rpc_push_lock ("" = free)
    \* ---- video channel ----
    videoWire,   \* bytes in flight on the video socket, each [b |-> value, hdr |-> written as header byte]
    framesSent,  \* frames _on_frame has written
    vloop,       \* the client's _video_loop: [pc, size, aligned, frames, bytes_recv]
    skipped,     \* headers _video_loop has skipped
    \* ---- control requests (ClientSession.run / RPCHandler) ----
    ctl,         \* the run loop: [pc, handled, req (last request), resps (its responses), did (its moves)]
    capture,     \* ScreenCapture: [fps, quality]
    staged,      \* names that resolve in ~/BridgeStaging/<session_id>/ (".." while it exists)
    moved,       \* moves place_staged has made: [src, dst]
    \* ---- listeners (DGXService.start) ----
    ports,       \* DGXService.rpc_port / video_port / input_port
    busy,        \* ports some other process listens on
    listener,    \* per listener thread: "unstarted", "bound" or "failed"
    negReplies,  \* triplets _handle_negotiation has sent, with the ports bound then
    \* ---- client connection manager (MainWindow / DGXConnection) ----
    config,      \* Config: [reconnect_interval, auto_reconnect]
    win,         \* MainWindow: [pc, is_connecting, fail_count, interval, attempts, neg_ok, opened]
    cli,         \* DGXConnection: [connected, rpc, video, input, video_loop, events, last, err, calls]
    \* ---- the control socket as a stream (downloads, rpc replies, pushes) ----
    stream,      \* [req (client to server lines), out (server to client units in flight), log (all the server wrote)]
    dsrv,        \* ClientSession.run serving it: [pc, file, sent, pushes, handler]
    dcl,         \* the client on it: [kind, pc, call, size, recv, written, result]
    \* ---- the resolution watcher ----
    display,     \* the X display's current mode, <<width, height>>
    mon,         \* ResolutionMonitor: [current, ticks, failed, pushed]
    \* ---- ScreenCapture and its threads ----
    scap,        \* ScreenCapture: [running (_running), thread (_thread, 0 = None), caller ("idle" / "join")]
    capThreads,  \* every capture thread ever created: id -> "check" / "busy" / "dead"
    \* ---- run() reading lines from one control connection ----
    pconn,       \* [pc ("hello" / "loop" / "closed" / "dead"), lines (read so far), replies, errors]
    \* ---- _input_loop dispatching to the injector ----
    iloop,       \* [pc ("recv" / "ended" / "dead"), wire (envelopes not yet read), sent, injected]
    \* ---- FileConverter on one local file ----
    doc,         \* the local file and its FileInfo inputs: [bytes, hint, readable, io_ok]
    prepared,    \* the prepared file: [by ("none" / "prepare" / "prepare_to_dir"), convert_crlf, bytes]
    \* ---- the client's control socket and its mutex ----
    lk,          \* [holder (of _rpc_lock, "" = free), pc (per thread; a call: 0 outside, -1 blocked on the mutex, n in its n-th socket operation), calls]
    \* ---- MainWindow, its connect workers and the queued callbacks ----
    ui,          \* MainWindow: [is_connecting, suppressed, closing, timer (watchdog active), ip (dgx_ip set), conn (slot of self.conn, 0 = None)]
    slots,       \* per attempt: [pc (worker), connected (its DGXConnection), loop (its video loop alive)]
    evq,         \* signals queued for the GUI thread: [k, w]
    \* ---- the server's file system as the staging handlers see it ----
    fs,          \* the files that exist, as resolved absolute paths
    stg,         \* the last path a staging handler read, moved or deleted: [op, path]
    \* ---- the end of a file transfer as the client sees it ----
    vf           \* [fn, remote (bytes the server hashed), local (bytes the client hashed), pc, resp, result]

serverVars == <<sock, sess, svcSession, pendingVid, pendingInp, capRunning,
                capCb, inThreads, negLog>>

inputVars == <<mouseSlot, mouseDirty, flusher, inputWire, uiCalls, connected,
               inputSockOk>>

workerVars == <<items, worker, autoPlace, abortFlag>>

uploadVars == <<c2s, c2sClosed, s2c, srv, up>>

frameVars == <<wire, writers, pushLock>>

videoVars == <<videoWire, framesSent, vloop, skipped>>

controlVars == <<ctl, capture, staged, moved>>

listenVars == <<ports, busy, listener, negReplies>>
clientVars == <<config, win, cli>>
streamVars == <<stream, dsrv, dcl>>
monitorVars == <<display, mon>>
captureVars == <<scap, capThreads>>
protoVars == <<pconn>>
injectVars == <<iloop>>
convertVars == <<doc, prepared>>
lockVars == <<lk>>
reconnectVars == <<ui, slots, evq>>
stagingVars == <<fs, stg>>
verifyVars == <<vf>>

vars == <<serverVars, inputVars, workerVars, uploadVars, frameVars, videoVars, controlVars,
          listenVars, clientVars, streamVars, monitorVars, captureVars, protoVars, injectVars, convertVars, lockVars, reconnectVars, stagingVars, verifyVars>>

\* The variables the actions of one subsystem leave alone.
nonServerVars == <<inputVars, workerVars, uploadVars, frameVars, videoVars, controlVars, listenVars, clientVars, streamVars, monitorVars, captureVars, protoVars, injectVars, convertVars, lockVars, reconnectVars, stagingVars, verifyVars>>
nonInputVars  == <<serverVars, workerVars, uploadVars, frameVars, videoVars, controlVars, listenVars, clientVars, streamVars, monitorVars, captureVars, protoVars, injectVars, convertVars, lockVars, reconnectVars, stagingVars, verifyVars>>
nonWorkerVars == <<serverVars, inputVars, uploadVars, frameVars, videoVars, controlVars, listenVars, clientVars, streamVars, monitorVars, captureVars, protoVars, injectVars, convertVars, lockVars, reconnectVars, stagingVars, verifyVars>>
nonUploadVars == <<serverVars, inputVars, workerVars, frameVars, videoVars, controlVars, listenVars, clientVars, streamVars, monitorVars, captureVars, protoVars, injectVars, convertVars, lockVars, reconnectVars, stagingVars, verifyVars>>
nonFrameVars  == <<serverVars, inputVars, workerVars, uploadVars, videoVars, controlVars, listenVars, clientVars, streamVars, monitorVars, captureVars, protoVars, injectVars, convertVars, lockVars, reconnectVars, stagingVars, verifyVars>>
nonVideoVars  == <<serverVars, inputVars, workerVars, uploadVars, frameVars, controlVars, listenVars, clientVars, streamVars, monitorVars, captureVars, protoVars, injectVars, convertVars, lockVars, reconnectVars, stagingVars, verifyVars>>
nonControlVars == <<serverVars, inputVars, workerVars, uploadVars, frameVars, videoVars, listenVars, clientVars, streamVars, monitorVars, captureVars, protoVars, injectVars, convertVars, lockVars, reconnectVars, stagingVars, verifyVars>>
nonListenVars == <<serverVars, inputVars, workerVars, uploadVars, frameVars, videoVars, controlVars, clientVars, streamVars, monitorVars, captureVars, protoVars, injectVars, convertVars, lockVars, reconnectVars, stagingVars, verifyVars>>
nonClientVars == <<serverVars, inputVars, workerVars, uploadVars, frameVars, videoVars, controlVars, listenVars, streamVars, monitorVars, captureVars, protoVars, injectVars, convertVars, lockVars, reconnectVars, stagingVars, verifyVars>>
nonStreamVars == <<serverVars, inputVars, workerVars, uploadVars, frameVars, videoVars, controlVars, listenVars, clientVars, monitorVars, captureVars, protoVars, injectVars, convertVars, lockVars, reconnectVars, stagingVars, verifyVars>>
nonMonitorVars == <<serverVars, inputVars, workerVars, uploadVars, frameVars, videoVars, controlVars, listenVars, clientVars, streamVars, captureVars, protoVars, injectVars, convertVars, lockVars, reconnectVars, stagingVars, verifyVars>>
nonCaptureVars == <<serverVars, inputVars, workerVars, uploadVars, frameVars, videoVars, controlVars, listenVars, clientVars, streamVars, monitorVars, protoVars, injectVars, convertVars, lockVars, reconnectVars, stagingVars, verifyVars>>
nonProtoVars == <<serverVars, inputVars, workerVars, uploadVars, frameVars, videoVars, controlVars, listenVars, clientVars, streamVars, monitorVars, captureVars, injectVars, convertVars, lockVars, reconnectVars, stagingVars, verifyVars>>
nonInjectVars == <<serverVars, inputVars, workerVars, uploadVars, frameVars, videoVars, controlVars, listenVars, clientVars, streamVars, monitorVars, captureVars, protoVars, convertVars, lockVars, reconnectVars, stagingVars, verifyVars>>
nonConvertVars == <<serverVars, inputVars, workerVars, uploadVars, frameVars, videoVars, controlVars, listenVars, clientVars, streamVars, monitorVars, captureVars, protoVars, injectVars, lockVars, reconnectVars, stagingVars, verifyVars>>
nonLockVars == <<serverVars, inputVars, workerVars, uploadVars, frameVars, videoVars, controlVars, listenVars, clientVars, streamVars, monitorVars, captureVars, protoVars, injectVars, convertVars, reconnectVars, stagingVars, verifyVars>>
nonReconnectVars == <<serverVars, inputVars, workerVars, uploadVars, frameVars, videoVars, controlVars, listenVars, clientVars, streamVars, monitorVars, captureVars, protoVars, injectVars, convertVars, lockVars, stagingVars, verifyVars>>
nonStagingVars == <<serverVars, inputVars, workerVars, uploadVars, frameVars, videoVars, controlVars, listenVars, clientVars, streamVars, monitorVars, captureVars, protoVars, injectVars, convertVars, lockVars, reconnectVars, verifyVars>>
nonVerifyVars == <<serverVars, inputVars, workerVars, uploadVars, frameVars, videoVars, controlVars, listenVars, clientVars, streamVars, monitorVars, captureVars, protoVars, injectVars, convertVars, lockVars, reconnectVars, stagingVars>>

(***************************************************************************)
(* Server supervisor.                                                      *)
(***************************************************************************)
Sessions == 1..Len(sess)
Socks    == 1..Len(sock)

\* socket.close(): the server's handle is closed (idempotent; None is skipped).
CloseAll(sk, cs) ==
    [c \in DOMAIN sk |-> IF c \in cs THEN [sk[c] EXCEPT !.srv = FALSE] ELSE sk[c]]

\* A send or recv on c raises / returns EOF: closed locally or by the peer.
Broken(c) == ~sock[c].srv \/ ~sock[c].peer

\* ClientSession.__init__
NewSession(c) == [running |-> FALSE, rpc |-> c, vid |-> 0, inp |-> 0, pc |-> "new"]

\* ClientSession.set_video_conn: self._vid_conn = conn (the drain changes no state).
set_video_conn(ss, s, c) == [ss EXCEPT ![s].vid = c]

\* ClientSession.set_input_conn: self._inp_conn = conn, then a new _input_loop thread.
set_input_conn(ss, s, c) == [ss EXCEPT ![s].inp = c]
InputThread(s) == [s |-> s, pc |-> "top", c |-> 0]

\* DGXService._start_session, called by _accept_rpc for every accepted connection.
start_session(c) ==
    LET s  == Len(sess) + 1
        s0 == Append(sess, NewSession(c))
        s1 == IF pendingVid # 0 THEN set_video_conn(s0, s, pendingVid) ELSE s0
        s2 == IF pendingInp # 0 THEN set_input_conn(s1, s, pendingInp) ELSE s1
    IN  /\ sess' = s2
        /\ svcSession' = s
        /\ pendingVid' = 0
        /\ pendingInp' = 0
        /\ inThreads' = IF pendingInp # 0 THEN inThreads \cup {InputThread(s)}
                        ELSE inThreads

\* DGXService._accept_rpc: one iteration of the accept loop.
AcceptRpc ==
    /\ Len(sock) < MaxConns
    /\ sock' = Append(sock, [kind |-> "rpc", srv |-> TRUE, peer |-> TRUE])
    /\ start_session(Len(sock) + 1)
    /\ UNCHANGED <<capRunning, capCb, negLog>>
    /\ UNCHANGED nonServerVars

\* An accept loop that parks the new connection without closing the parked one.
AcceptVideo_keep ==
    /\ Len(sock) < MaxConns
    /\ LET c  == Len(sock) + 1
           sk == Append(sock, [kind |-> "vid", srv |-> TRUE, peer |-> TRUE])
       IN  IF svcSession # 0
           THEN /\ sess' = set_video_conn(sess, svcSession, c)
                /\ sock' = sk
                /\ UNCHANGED pendingVid
           ELSE /\ sock' = sk
                /\ pendingVid' = c
                /\ UNCHANGED sess
    /\ UNCHANGED <<svcSession, pendingInp, capRunning, capCb, inThreads, negLog>>
    /\ UNCHANGED nonServerVars

\* DGXService._accept_video: one iteration of the accept loop.
AcceptVideo ==
    /\ Len(sock) < MaxConns
    /\ LET c  == Len(sock) + 1
           sk == Append(sock, [kind |-> "vid", srv |-> TRUE, peer |-> TRUE])
       IN  IF svcSession # 0
           THEN /\ sess' = set_video_conn(sess, svcSession, c)
                /\ sock' = sk
                /\ UNCHANGED pendingVid
           ELSE /\ sock' = CloseAll(sk, {pendingVid} \ {0})
                /\ pendingVid' = c
                /\ UNCHANGED sess
    /\ UNCHANGED <<svcSession, pendingInp, capRunning, capCb, inThreads, negLog>>
    /\ UNCHANGED nonServerVars

\* DGXService._accept_input: one iteration of the accept loop.
AcceptInput ==
    /\ Len(sock) < MaxConns
    /\ LET c  == Len(sock) + 1
           sk == Append(sock, [kind |-> "inp", srv |-> TRUE, peer |-> TRUE])
       IN  IF svcSession # 0
           THEN /\ sess' = set_input_conn(sess, svcSession, c)
                /\ inThreads' = inThreads \cup {InputThread(svcSession)}
                /\ sock' = sk
                /\ UNCHANGED pendingInp
           ELSE /\ sock' = CloseAll(sk, {pendingInp} \ {0})
                /\ pendingInp' = c
                /\ UNCHANGED <<sess, inThreads>>
    /\ UNCHANGED <<svcSession, pendingVid, capRunning, capCb, negLog>>
    /\ UNCHANGED nonServerVars

\* The check of _handle_negotiation, made under _session_lock.
SessionActive == svcSession # 0 /\ sess[svcSession].running

\* A Session exists: its control connection was accepted and teardown has not
\* yet closed its sockets.
Exists(s) == sock[sess[s].rpc].srv

\* DGXService._handle_negotiation for a well-formed negotiate request.
HandleNegotiation ==
    /\ Len(negLog) < MaxNeg
    /\ negLog' = Append(negLog,
                   [reply  |-> IF SessionActive THEN "session already active"
                               ELSE "triplet",
                    exists |-> \E s \in Sessions : Exists(s)])
    /\ UNCHANGED <<sock, sess, svcSession, pendingVid, pendingInp, capRunning,
                   capCb, inThreads>>
    /\ UNCHANGED nonServerVars

\* ClientSession._cleanup followed by the end of run(): _running = False,
\* capture.stop(), close the three sockets the Session holds now.
Cleanup(s) ==
    /\ sess' = [sess EXCEPT ![s].running = FALSE, ![s].pc = "done"]
    /\ capRunning' = FALSE
    /\ sock' = CloseAll(sock, {sess[s].rpc, sess[s].vid, sess[s].inp} \ {0})

\* ClientSession.run, first statement: self._running = True.
RunStart(s) ==
    /\ sess[s].pc = "new"
    /\ sess' = [sess EXCEPT ![s].running = TRUE, ![s].pc = "hello"]
    /\ UNCHANGED <<sock, svcSession, pendingVid, pendingInp, capRunning, capCb,
                   inThreads, negLog>>
    /\ UNCHANGED nonServerVars

\* ScreenCapture.start: a no-op when already running, else install the callback.
CaptureStart(s) ==
    IF capRunning THEN UNCHANGED <<capRunning, capCb>>
    ELSE capRunning' = TRUE /\ capCb' = s

\* ClientSession.run, handshake: a hello was read and answered; capture.start.
RunHelloOk(s) ==
    /\ sess[s].pc = "hello"
    /\ ~Broken(sess[s].rpc)
    /\ sess' = [sess EXCEPT ![s].pc = "top"]
    /\ CaptureStart(s)
    /\ UNCHANGED <<sock, svcSession, pendingVid, pendingInp, inThreads, negLog>>
    /\ UNCHANGED nonServerVars

\* ClientSession.run, handshake: recv failed, EOF, or the first envelope is not
\* a hello: _cleanup and return.
RunHelloBad(s) ==
    /\ sess[s].pc = "hello"
    /\ Cleanup(s)
    /\ UNCHANGED <<svcSession, pendingVid, pendingInp, capCb, inThreads, negLog>>
    /\ UNCHANGED nonServerVars

\* ClientSession.run, `while self._running:` evaluated.
RunTop(s) ==
    /\ sess[s].pc = "top"
    /\ IF sess[s].running
       THEN /\ sess' = [sess EXCEPT ![s].pc = "recv"]
            /\ UNCHANGED <<sock, capRunning>>
       ELSE Cleanup(s)
    /\ UNCHANGED <<svcSession, pendingVid, pendingInp, capCb, inThreads, negLog>>
    /\ UNCHANGED nonServerVars

\* ClientSession.run, a request line arrived, was dispatched and answered.
RunRecvLine(s) ==
    /\ sess[s].pc = "recv"
    /\ ~Broken(sess[s].rpc)
    /\ sess' = [sess EXCEPT ![s].pc = "top"]
    /\ UNCHANGED <<sock, svcSession, pendingVid, pendingInp, capRunning, capCb,
                   inThreads, negLog>>
    /\ UNCHANGED nonServerVars

\* ClientSession.run, _recv_line returned "" (EOF) or raised OSError: break,
\* then the finally clause runs _cleanup.
RunRecvEnd(s) ==
    /\ sess[s].pc = "recv"
    /\ Broken(sess[s].rpc)
    /\ Cleanup(s)
    /\ UNCHANGED <<svcSession, pendingVid, pendingInp, capCb, inThreads, negLog>>
    /\ UNCHANGED nonServerVars

\* ClientSession._input_loop, `while self._running and self._inp_conn:`.
InputTop(t) ==
    /\ t \in inThreads /\ t.pc = "top"
    /\ inThreads' = IF sess[t.s].running /\ sess[t.s].inp # 0
                    THEN (inThreads \ {t}) \cup {[t EXCEPT !.pc = "recv", !.c = sess[t.s].inp]}
                    ELSE inThreads \ {t}
    /\ UNCHANGED <<sock, sess, svcSession, pendingVid, pendingInp, capRunning,
                   capCb, negLog>>
    /\ UNCHANGED nonServerVars

\* ClientSession._input_loop, an event line arrived and was dispatched.
InputRecvLine(t) ==
    /\ t \in inThreads /\ t.pc = "recv"
    /\ ~Broken(t.c)
    /\ inThreads' = (inThreads \ {t}) \cup {[t EXCEPT !.pc = "top", !.c = 0]}
    /\ UNCHANGED <<sock, sess, svcSession, pendingVid, pendingInp, capRunning,
                   capCb, negLog>>
    /\ UNCHANGED nonServerVars

\* ClientSession._input_loop, EOF or an exception: break.  Nothing else is done.
InputRecvEnd(t) ==
    /\ t \in inThreads /\ t.pc = "recv"
    /\ Broken(t.c)
    /\ inThreads' = inThreads \ {t}
    /\ UNCHANGED <<sock, sess, svcSession, pendingVid, pendingInp, capRunning,
                   capCb, negLog>>
    /\ UNCHANGED nonServerVars

\* ClientSession._on_frame, called by the capture thread while the pump runs:
\* a sendall error on the video socket sets _running = False, nothing more.
OnFrame ==
    /\ capRunning /\ capCb # 0
    /\ sess[capCb].vid # 0
    /\ Broken(sess[capCb].vid)
    /\ sess' = [sess EXCEPT ![capCb].running = FALSE]
    /\ UNCHANGED <<sock, svcSession, pendingVid, pendingInp, capRunning, capCb,
                   inThreads, negLog>>
    /\ UNCHANGED nonServerVars

\* The client closes (or loses) its end of an accepted connection.
PeerClose(c) ==
    /\ c \in Socks /\ sock[c].peer
    /\ sock' = [sock EXCEPT ![c].peer = FALSE]
    /\ UNCHANGED <<sess, svcSession, pendingVid, pendingInp, capRunning, capCb,
                   inThreads, negLog>>
    /\ UNCHANGED nonServerVars

(***************************************************************************)
(* Client input pipeline: motion coalescing and inline events.             *)
(***************************************************************************)
ClickKinds == {"mouse_press", "mouse_release", "mouse_scroll"}

\* DGXConnection._send_input: returns silently when not connected, appends
\* the envelope to the socket's stream, or marks the connection dead when
\* the write fails.
send_input(event) ==
    IF ~connected
    THEN UNCHANGED <<inputWire, connected>>
    ELSE IF inputSockOk
         THEN inputWire' = Append(inputWire, event) /\ UNCHANGED connected
         ELSE connected' = FALSE /\ UNCHANGED inputWire

\* DGXConnection.send_mouse_move: record the latest position, mark dirty.
send_mouse_move(p) ==
    /\ uiCalls < MaxUiCalls
    /\ uiCalls' = uiCalls + 1
    /\ mouseSlot' = [pos |-> p, seq |-> uiCalls + 1]
    /\ mouseDirty' = TRUE
    /\ UNCHANGED <<flusher, inputWire, connected, inputSockOk>>
    /\ UNCHANGED nonInputVars

\* DGXConnection.send_mouse_press / send_mouse_release / send_mouse_scroll:
\* the envelope is sent inline.  `after` records the send_mouse_move call
\* that was the latest when the UI made this call.
send_click(k) ==
    /\ uiCalls < MaxUiCalls
    /\ uiCalls' = uiCalls + 1
    /\ send_input([type |-> k, pos |-> 0, seq |-> uiCalls + 1, after |-> mouseSlot.seq])
    /\ UNCHANGED <<mouseSlot, mouseDirty, flusher, inputSockOk>>
    /\ UNCHANGED nonInputVars

\* A flusher that copies the slot and leaves the dirty flag set.
FlusherRead_keep_dirty ==
    /\ flusher.pc = "loop"
    /\ IF ~connected
       THEN flusher' = [flusher EXCEPT !.pc = "exit"]
       ELSE flusher' = [pc |-> IF mouseDirty THEN "send" ELSE "loop", slot |-> mouseSlot]
    /\ UNCHANGED <<mouseSlot, mouseDirty, inputWire, uiCalls, connected, inputSockOk>>
    /\ UNCHANGED nonInputVars

\* DGXConnection._mouse_flush_loop: loop condition, then the locked section
\* that copies the slot and clears the dirty flag.
FlusherRead ==
    /\ flusher.pc = "loop"
    /\ IF ~connected
       THEN /\ flusher' = [flusher EXCEPT !.pc = "exit"]
            /\ UNCHANGED mouseDirty
       ELSE /\ flusher' = [pc |-> IF mouseDirty THEN "send" ELSE "loop", slot |-> mouseSlot]
            /\ mouseDirty' = FALSE
    /\ UNCHANGED <<mouseSlot, inputWire, uiCalls, connected, inputSockOk>>
    /\ UNCHANGED nonInputVars

\* DGXConnection._mouse_flush_loop: the mouse_move envelope is sent outside
\* the lock, then the thread sleeps.
FlusherSend ==
    /\ flusher.pc = "send"
    /\ send_input([type |-> "mouse_move", pos |-> flusher.slot.pos,
                   seq |-> flusher.slot.seq, after |-> 0])
    /\ flusher' = [flusher EXCEPT !.pc = "loop"]
    /\ UNCHANGED <<mouseSlot, mouseDirty, uiCalls, inputSockOk>>
    /\ UNCHANGED nonInputVars

\* The input connection breaks: the next write on it fails.
InputSockBreak ==
    /\ inputSockOk
    /\ inputSockOk' = FALSE
    /\ UNCHANGED <<mouseSlot, mouseDirty, flusher, inputWire, uiCalls, connected>>
    /\ UNCHANGED nonInputVars

\* DGXConnection.__init__ followed by a successful connect().
InputInit ==
    /\ mouseSlot = [pos |-> 0, seq |-> 0]
    /\ mouseDirty = FALSE
    /\ flusher = [pc |-> "loop", slot |-> [pos |-> 0, seq |-> 0]]
    /\ inputWire = <<>>
    /\ uiCalls = 0
    /\ connected = TRUE
    /\ inputSockOk = TRUE

InputNext ==
    \/ \E p \in 1..MaxPos : send_mouse_move(p)
    \/ \E k \in ClickKinds : send_click(k)
    \/ FlusherRead
    \/ FlusherSend
    \/ InputSockBreak

(***************************************************************************)
(* Transfer worker: the per-item pipeline of one TransferJob.              *)
(***************************************************************************)
Digests == 0..MaxDigest

\* TransferItem as the dataclass constructs it.  `shown` collects the
\* statuses emitted for the item (item_status), `placed` counts the
\* place_staged requests issued for it.
NewItem == [status |-> "queued", sha256_src |-> 0, sha256_dst |-> 0,
            integrity_ok |-> "none", shown |-> <<>>, placed |-> 0]

\* The results send_file can return: the server's response line, or
\* {ok: False, error} built by the client.  sha256 = 0: the key is absent.
SendResults == [ok : BOOLEAN, sha256 : Digests]

\* A failure that is shown but not stored in the item.
fail_shown_only(i) ==
    items' = [items EXCEPT ![i].shown = Append(@, "failed")]

\* TransferWorker._fail
fail(i) ==
    items' = [items EXCEPT ![i].status = "failed",
                           ![i].shown = Append(@, "failed")]

\* A verdict that trusts the response's ok and skips the comparison.
IntegrityOk_TrustOk(sha_src, sha_dst, result) == result.ok

\* TransferWorker._process_item, step 4: the integrity verdict.
IntegrityOk(sha_src, sha_dst, result) ==
    IF sha_src # 0 /\ sha_dst # 0 THEN sha_src = sha_dst ELSE result.ok

\* TransferWorker.abort
Abort ==
    /\ ~abortFlag /\ worker.pc # "finished"
    /\ abortFlag' = TRUE
    /\ UNCHANGED <<items, worker, autoPlace>>
    /\ UNCHANGED nonWorkerVars

\* TransferWorker.run: the head of the loop over job.items.
RunNext ==
    /\ worker.pc = "next"
    /\ IF worker.idx > Len(items)
       THEN /\ worker' = [worker EXCEPT !.pc = "finished"]
            /\ UNCHANGED items
       ELSE IF abortFlag
            THEN /\ fail(worker.idx)
                 /\ worker' = [worker EXCEPT !.idx = @ + 1]
            ELSE /\ worker' = [worker EXCEPT !.pc = "prep"]
                 /\ UNCHANGED items
    /\ UNCHANGED <<autoPlace, abortFlag>>
    /\ UNCHANGED nonWorkerVars

\* _process_item steps 0-2: analyze, prepare, checksum the prepared file.
ProcPrep(readable, sha_src) ==
    /\ worker.pc = "prep"
    /\ LET i == worker.idx IN
       IF ~readable
       THEN /\ items' = [items EXCEPT ![i].status = "failed",
                                      ![i].shown = @ \o <<"running", "failed">>]
            /\ worker' = [worker EXCEPT !.pc = "next", !.idx = @ + 1]
       ELSE /\ items' = [items EXCEPT ![i].status = "running",
                                      ![i].sha256_src = sha_src,
                                      ![i].shown = @ \o <<"running">>]
            /\ worker' = [worker EXCEPT !.pc = "send"]
    /\ UNCHANGED <<autoPlace, abortFlag>>
    /\ UNCHANGED nonWorkerVars

\* _process_item step 3: send_file returned `result`.
ProcSend(result) ==
    /\ worker.pc = "send"
    /\ LET i == worker.idx IN
       IF ~result.ok
       THEN /\ fail(i)
            /\ worker' = [worker EXCEPT !.pc = "next", !.idx = @ + 1]
       ELSE /\ items' = [items EXCEPT ![i].sha256_dst = result.sha256,
                                      ![i].shown = Append(@, "verifying")]
            /\ worker' = [worker EXCEPT !.pc = "verify", !.result = result]
    /\ UNCHANGED <<autoPlace, abortFlag>>
    /\ UNCHANGED nonWorkerVars

\* _process_item step 4 and the branch of step 5: verify, then either issue
\* place_staged (auto_place) or leave the item in the bridge.
ProcVerify ==
    /\ worker.pc = "verify"
    /\ LET i  == worker.idx
           ok == IntegrityOk(items[i].sha256_src, items[i].sha256_dst, worker.result)
       IN  IF ~ok
           THEN /\ items' = [items EXCEPT ![i].status = "failed",
                                          ![i].integrity_ok = "false",
                                          ![i].shown = Append(@, "failed")]
                /\ worker' = [worker EXCEPT !.pc = "next", !.idx = @ + 1]
           ELSE IF autoPlace
                THEN /\ items' = [items EXCEPT ![i].integrity_ok = "true",
                                               ![i].placed = @ + 1,
                                               ![i].shown = Append(@, "running")]
                     /\ worker' = [worker EXCEPT !.pc = "place"]
                ELSE /\ items' = [items EXCEPT ![i].integrity_ok = "true",
                                               ![i].status = "bridge",
                                               ![i].shown = Append(@, "bridge")]
                     /\ worker' = [worker EXCEPT !.pc = "next", !.idx = @ + 1]
    /\ UNCHANGED <<autoPlace, abortFlag>>
    /\ UNCHANGED nonWorkerVars

\* _process_item step 5: the place_staged response arrived.
ProcPlace(place_ok) ==
    /\ worker.pc = "place"
    /\ LET i == worker.idx IN
       IF ~place_ok
       THEN fail(i)
       ELSE items' = [items EXCEPT ![i].status = "done",
                                   ![i].shown = Append(@, "done")]
    /\ worker' = [worker EXCEPT !.pc = "next", !.idx = @ + 1]
    /\ UNCHANGED <<autoPlace, abortFlag>>
    /\ UNCHANGED nonWorkerVars

\* TransferWorker.__init__ for a job of up to MaxItems queued items.
WorkerInit ==
    /\ \E n \in 1..MaxItems : items = [i \in 1..n |-> NewItem]
    /\ worker = [pc |-> "next", idx |-> 1, result |-> [ok |-> FALSE, sha256 |-> 0]]
    /\ autoPlace \in BOOLEAN
    /\ abortFlag = FALSE

\* The worker before any job is given to it.
WorkerIdle ==
    /\ items = <<>>
    /\ worker = [pc |-> "finished", idx |-> 1, result |-> [ok |-> FALSE, sha256 |-> 0]]
    /\ autoPlace = FALSE
    /\ abortFlag = FALSE

WorkerNext ==
    \/ Abort
    \/ RunNext
    \/ \E r \in BOOLEAN, d \in Digests : ProcPrep(r, d)
    \/ \E res \in SendResults : ProcSend(res)
    \/ ProcVerify
    \/ \E ok \in BOOLEAN : ProcPlace(ok)

(***************************************************************************)
(* File upload on the control channel: ClientSession.run's dispatch and    *)
(* _handle_file_receive on the server, DGXConnection.send_file on the      *)
(* client, and an uploader that follows the file_send sub-protocol.        *)
(***************************************************************************)
Bytes == 1..MaxByte
Files == UNION {[1..n -> Bytes] : n \in 0..MaxFile}

\* hashlib.sha256(...).hexdigest(): collision-free, so the digest names the
\* byte sequence.  Digests are >= 1; 0 stands for an absent or empty digest.
RECURSIVE sha256(_)
sha256(b) ==
    IF b = <<>> THEN 1
    ELSE sha256(SubSeq(b, 1, Len(b) - 1)) * (MaxByte + 1) + b[Len(b)]

\* The folder names of the model.
LegalFolders  == {"inbox", "outbox", "staging", "archive"}
SessionFolder == "BridgeStaging/<session_id>"

NoResp == [ok |-> FALSE, type |-> "none", sha256 |-> 0, error |-> ""]
Resp(ok, type, sha, error) == [ok |-> ok, type |-> type, sha256 |-> sha, error |-> error]

Line(msg) == [k |-> "line", msg |-> msg, v |-> 0]
Byte(v)   == [k |-> "byte", msg |-> <<>>, v |-> v]
Payload(b) == [i \in 1..Len(b) |-> Byte(b[i])]

\* msg.get("folder", "inbox")
FolderOf(msg) == IF msg.folder = "absent" THEN "inbox" ELSE msg.folder

\* RPCHandler.dispatch: a handle_<type> method exists for these types only.
RpcTypes == {"ping", "hello", "get_system_info", "get_resolution", "place_staged"}
dispatch(msg) ==
    IF msg.type \in RpcTypes THEN Resp(TRUE, msg.type, 0, "")
    ELSE Resp(FALSE, "", 0, "Unknown RPC type")

\* min(CHUNK, remaining)
ChunkLen(remaining) == IF remaining < CHUNK THEN remaining ELSE CHUNK

\* A digest that is restarted for every chunk instead of running over all.
sha_update_restart(h, chunk) == chunk

\* sha.update(chunk) on the running digest (the bytes hashed so far).
sha_update(h, chunk) == h \o chunk

\* _handle_file_receive, the response after the receive loop.
ReceiveResponse(h, expected) ==
    Resp(IF expected # 0 THEN sha256(h) = expected ELSE TRUE, "", sha256(h), "")

\* ClientSession.run: a request line was read; dispatch on its type.
\* file_send enters _handle_file_receive up to the `ready` reply.
SrvRequest ==
    /\ srv.pc = "line"
    /\ c2s # <<>> /\ Head(c2s).k = "line"
    /\ LET msg == Head(c2s).msg IN
       /\ c2s' = Tail(c2s)
       /\ IF msg.type = "file_send"
          THEN IF FolderOf(msg) \notin LegalFolders
               THEN /\ s2c' = Append(s2c, Resp(FALSE, "", 0, "Invalid folder"))
                    /\ srv' = [srv EXCEPT !.handler = "file_receive",
                                          !.final = Resp(FALSE, "", 0, "Invalid folder")]
               ELSE /\ s2c' = Append(s2c, Resp(TRUE, "ready", 0, ""))
                    /\ srv' = [srv EXCEPT !.pc = "recvfile", !.handler = "file_receive",
                                          !.remaining = msg.size, !.sha = <<>>,
                                          !.expected = msg.sha256, !.got = <<>>,
                                          !.written = <<>>, !.dest = FolderOf(msg),
                                          !.final = NoResp]
          ELSE /\ s2c' = Append(s2c, dispatch(msg))
               /\ srv' = [srv EXCEPT !.handler = "dispatch"]
    /\ UNCHANGED <<c2sClosed, up>>
    /\ UNCHANGED nonUploadVars

\* ClientSession.run: _recv_line meets bytes that are no JSON line
\* (json.JSONDecodeError: continue); no response is sent.
SrvJunk ==
    /\ srv.pc = "line"
    /\ c2s # <<>> /\ Head(c2s).k = "byte"
    /\ c2s' = Tail(c2s)
    /\ UNCHANGED <<c2sClosed, s2c, srv, up>>
    /\ UNCHANGED nonUploadVars

\* ClientSession.run: _recv_line returns "" at EOF: break, then _cleanup.
SrvEof ==
    /\ srv.pc = "line"
    /\ c2s = <<>> /\ c2sClosed
    /\ srv' = [srv EXCEPT !.pc = "done"]
    /\ UNCHANGED <<c2s, c2sClosed, s2c, up>>
    /\ UNCHANGED nonUploadVars

\* _handle_file_receive: one iteration of the receive loop, _recv_exact
\* returning the whole chunk.
SrvChunk ==
    /\ srv.pc = "recvfile" /\ srv.remaining > 0
    /\ LET n == ChunkLen(srv.remaining) IN
       /\ Len(c2s) >= n
       /\ LET chunk == [i \in 1..n |-> c2s[i].v] IN
          /\ srv' = [srv EXCEPT !.remaining = @ - n,
                                !.sha = sha_update(@, chunk),
                                !.got = @ \o chunk,
                                !.written = @ \o chunk]
          /\ c2s' = SubSeq(c2s, n + 1, Len(c2s))
    /\ UNCHANGED <<c2sClosed, s2c, up>>
    /\ UNCHANGED nonUploadVars

\* _handle_file_receive: _recv_exact meets EOF before the chunk is complete
\* and raises; the handler returns {ok: False, error}.
SrvChunkEof ==
    /\ srv.pc = "recvfile" /\ srv.remaining > 0
    /\ c2sClosed /\ Len(c2s) < ChunkLen(srv.remaining)
    /\ LET r == Resp(FALSE, "", 0, "Connection closed mid-transfer") IN
       /\ srv' = [srv EXCEPT !.pc = "line", !.final = r,
                             !.got = @ \o [i \in 1..Len(c2s) |-> c2s[i].v]]
       /\ s2c' = Append(s2c, r)
    /\ c2s' = <<>>
    /\ UNCHANGED <<c2sClosed, up>>
    /\ UNCHANGED nonUploadVars

\* _handle_file_receive: the loop is over; compare with the declared digest
\* and answer {ok, sha256}.
SrvFinish ==
    /\ srv.pc = "recvfile" /\ srv.remaining = 0
    /\ LET r == ReceiveResponse(srv.sha, srv.expected) IN
       /\ srv' = [srv EXCEPT !.pc = "line", !.final = r]
       /\ s2c' = Append(s2c, r)
    /\ UNCHANGED <<c2s, c2sClosed, up>>
    /\ UNCHANGED nonUploadVars

\* An uploader following the file_send sub-protocol: the header.
ProtoHeader ==
    /\ up.kind = "proto" /\ up.pc = "start"
    /\ c2s' = Append(c2s, Line([type |-> "file_send", folder |-> up.folder,
                                size |-> Len(up.file), sha256 |-> up.declared,
                                destination |-> "absent"]))
    /\ up' = [up EXCEPT !.pc = "wait_ready"]
    /\ UNCHANGED <<c2sClosed, s2c, srv>>
    /\ UNCHANGED nonUploadVars

\* The uploader reads the reply to its header.
ProtoReady ==
    /\ up.kind = "proto" /\ up.pc = "wait_ready"
    /\ ~c2sClosed /\ s2c # <<>>
    /\ s2c' = Tail(s2c)
    /\ up' = IF Head(s2c).type = "ready" THEN [up EXCEPT !.pc = "stream"]
             ELSE [up EXCEPT !.pc = "returned", !.result = Head(s2c)]
    /\ UNCHANGED <<c2s, c2sClosed, srv>>
    /\ UNCHANGED nonUploadVars

\* The uploader streams the next byte of the file.
ProtoByte ==
    /\ up.kind = "proto" /\ up.pc = "stream"
    /\ ~c2sClosed
    /\ IF up.sent < Len(up.file)
       THEN /\ c2s' = Append(c2s, Byte(up.file[up.sent + 1]))
            /\ up' = [up EXCEPT !.sent = @ + 1]
       ELSE /\ up' = [up EXCEPT !.pc = "wait_result"]
            /\ UNCHANGED c2s
    /\ UNCHANGED <<c2sClosed, s2c, srv>>
    /\ UNCHANGED nonUploadVars

\* The uploader reads the final response.
ProtoResult ==
    /\ up.kind = "proto" /\ up.pc = "wait_result"
    /\ ~c2sClosed /\ s2c # <<>>
    /\ s2c' = Tail(s2c)
    /\ up' = [up EXCEPT !.pc = "returned", !.result = Head(s2c)]
    /\ UNCHANGED <<c2s, c2sClosed, srv>>
    /\ UNCHANGED nonUploadVars

\* The client's end of the control connection closes: the stream ends where
\* it is.
UpClose ==
    /\ ~c2sClosed
    /\ up.pc # "start"
    /\ c2sClosed' = TRUE
    /\ UNCHANGED <<c2s, s2c, srv, up>>
    /\ UNCHANGED nonUploadVars

\* DGXConnection.send_file: the header it sends.
SendFileHeader ==
    /\ up.kind = "send_file" /\ up.pc = "start"
    /\ c2s' = Append(c2s, Line([type |-> "put_file", folder |-> "absent",
                                size |-> Len(up.file), sha256 |-> 0,
                                destination |-> up.folder]))
    /\ up' = [up EXCEPT !.pc = "stream"]
    /\ UNCHANGED <<c2sClosed, s2c, srv>>
    /\ UNCHANGED nonUploadVars

\* DGXConnection.send_file: the next chunk of the file, sent right after the
\* header; after the last chunk the client waits for one line.
SendFileChunk ==
    /\ up.kind = "send_file" /\ up.pc = "stream"
    /\ ~c2sClosed
    /\ LET n == ChunkLen(Len(up.file) - up.sent) IN
       IF n > 0
       THEN /\ c2s' = c2s \o Payload(SubSeq(up.file, up.sent + 1, up.sent + n))
            /\ up' = [up EXCEPT !.sent = @ + n]
       ELSE /\ up' = [up EXCEPT !.pc = "wait_result"]
            /\ UNCHANGED c2s
    /\ UNCHANGED <<c2sClosed, s2c, srv>>
    /\ UNCHANGED nonUploadVars

\* DGXConnection.send_file: the line read after the stream is the result (no
\* response of the server carries a "checksum" key).
SendFileResult ==
    /\ up.kind = "send_file" /\ up.pc = "wait_result"
    /\ ~c2sClosed /\ s2c # <<>>
    /\ s2c' = Tail(s2c)
    /\ up' = [up EXCEPT !.pc = "returned", !.result = Head(s2c)]
    /\ UNCHANGED <<c2s, c2sClosed, srv>>
    /\ UNCHANGED nonUploadVars

SrvIdle == [pc |-> "line", handler |-> "none", remaining |-> 0, sha |-> <<>>,
            expected |-> 0, got |-> <<>>, written |-> <<>>, dest |-> "",
            final |-> NoResp]

\* A running Session's control channel, and a client about to upload `file`:
\* either DGXConnection.send_file to the per-session staging folder, or an
\* uploader that follows the file_send sub-protocol.
UploadInit ==
    /\ c2s = <<>> /\ c2sClosed = FALSE /\ s2c = <<>>
    /\ srv = SrvIdle
    /\ \E f \in Files :
          \/ up = [kind |-> "send_file", pc |-> "start", file |-> f,
                   folder |-> SessionFolder, declared |-> 0, sent |-> 0,
                   result |-> NoResp]
          \/ \E fo \in {"absent", "staging", SessionFolder},
                d \in {0, sha256(f), sha256(<<1>> \o f)} :
                up = [kind |-> "proto", pc |-> "start", file |-> f,
                      folder |-> fo, declared |-> d, sent |-> 0,
                      result |-> NoResp]

\* No upload in progress.
UploadIdle ==
    /\ c2s = <<>> /\ c2sClosed = FALSE /\ s2c = <<>>
    /\ srv = SrvIdle
    /\ up = [kind |-> "none", pc |-> "idle", file |-> <<>>, folder |-> "absent",
             declared |-> 0, sent |-> 0, result |-> NoResp]

UploadNext ==
    \/ SrvRequest
    \/ SrvJunk
    \/ SrvEof
    \/ SrvChunk
    \/ SrvChunkEof
    \/ SrvFinish
    \/ ProtoHeader
    \/ ProtoReady
    \/ ProtoByte
    \/ ProtoResult
    \/ UpClose
    \/ SendFileHeader
    \/ SendFileChunk
    \/ SendFileResult

(***************************************************************************)
(* Concurrent writers of one socket.  The server's control socket is       *)
(* written by run() (responses), by _cursor_push_loop and by the           *)
(* resolution monitor's callback; the client's input socket by the         *)
(* MouseFlusher thread and by the UI thread's inline events.               *)
(***************************************************************************)
Writers == {"response", "cursor_shape", "resolution_changed", "mouse_move", "mouse_press"}

\* The socket each writer thread writes to.
SocketOf(w) == IF w \in {"mouse_move", "mouse_press"} THEN "input" ELSE "control"

\* json.dumps(obj) + "\n", byte by byte: an object text without a newline,
\* then the newline.  The envelope's type stands for its members.
send_json_bytes(type) == <<"{", type, "}", "\n">>

\* socket.sendall is a loop of send() calls, each of which writes a non-empty
\* prefix of what is left; nothing orders the send() calls of two threads.
SendStep(w, n) ==
    /\ writers[w].buf # <<>>
    /\ n \in 1..Len(writers[w].buf)
    /\ wire' = [wire EXCEPT ![SocketOf(w)] = @ \o SubSeq(writers[w].buf, 1, n)]
    /\ writers' = [writers EXCEPT ![w].buf = SubSeq(@, n + 1, Len(@))]
    /\ pushLock' = IF w = pushLock /\ n = Len(writers[w].buf) THEN "" ELSE pushLock
    /\ UNCHANGED nonFrameVars

\* A writer that takes no lock starts sendall of its envelope:
\* _send_json(self._rpc_conn, resp) in run(), _send_json in
\* _on_resolution_change, send_json in _send_input (flusher and UI thread).
BeginSend(w) ==
    /\ w \in Writers \ {"cursor_shape"}
    /\ writers[w].buf = <<>> /\ writers[w].sent < MaxEnvelopes
    /\ writers' = [writers EXCEPT ![w] = [buf |-> send_json_bytes(w), sent |-> @.sent + 1]]
    /\ UNCHANGED <<wire, pushLock>>
    /\ UNCHANGED nonFrameVars

\* _cursor_push_loop: `with self._rpc_push_lock:` then sendall(msg).  Only
\* this thread ever takes the lock.
BeginCursorPush ==
    /\ pushLock = ""
    /\ writers["cursor_shape"].buf = <<>> /\ writers["cursor_shape"].sent < MaxEnvelopes
    /\ pushLock' = "cursor_shape"
    /\ writers' = [writers EXCEPT !["cursor_shape"] =
                      [buf |-> send_json_bytes("cursor_shape"), sent |-> @.sent + 1]]
    /\ UNCHANGED wire
    /\ UNCHANGED nonFrameVars

FrameInit ==
    /\ wire = [s \in {"control", "input"} |-> <<>>]
    /\ writers = [w \in Writers |-> [buf |-> <<>>, sent |-> 0]]
    /\ pushLock = ""

FrameNext ==
    \/ \E w \in Writers : BeginSend(w)
    \/ BeginCursorPush
    \/ \E w \in Writers, n \in 1..4 : SendStep(w, n)

(***************************************************************************)
(* The video channel: ClientSession._on_frame writes a 4-byte big-endian   *)
(* length and the JPEG; DGXConnection._video_loop reads them back.         *)
(***************************************************************************)
JpegBytes == 0..1

\* struct.pack(">I", n): four bytes, most significant first.
pack_I(n) ==
    << (n \div (256 * 256 * 256)) % 256, (n \div (256 * 256)) % 256, (n \div 256) % 256, n % 256 >>

\* struct.unpack(">I", header)[0].
unpack_I(header) ==
    ((header[1] * 256 + header[2]) * 256 + header[3]) * 256 + header[4]

\* _on_frame(jpeg): header and payload in two sendall calls under self._lock,
\* from the capture thread, the socket's only writer.
OnFrameSend(jpeg) ==
    /\ framesSent < MaxFrames
    /\ framesSent' = framesSent + 1
    /\ videoWire' = videoWire
                    \o [i \in 1..HEADER_LEN |-> [b |-> pack_I(Len(jpeg))[i], hdr |-> TRUE]]
                    \o [i \in 1..Len(jpeg) |-> [b |-> jpeg[i], hdr |-> FALSE]]
    /\ UNCHANGED <<vloop, skipped>>
    /\ UNCHANGED nonVideoVars

\* _video_loop: recv_exact(self._video_sock, 4), size = unpack; then
\* `if size == 0 or size > 20_000_000: continue`, which reads the next
\* header from wherever the stream stands.
VideoReadHeader ==
    /\ vloop.pc = "header"
    /\ Len(videoWire) >= HEADER_LEN
    /\ LET header == [i \in 1..HEADER_LEN |-> videoWire[i].b]
           size == unpack_I(header)
           aligned == \A i \in 1..HEADER_LEN : videoWire[i].hdr
       IN /\ videoWire' = SubSeq(videoWire, HEADER_LEN + 1, Len(videoWire))
          /\ IF size = 0 \/ size > FRAME_LIMIT
             THEN /\ vloop' = [vloop EXCEPT !.aligned = aligned, !.size = size]
                  /\ skipped' = skipped + 1
             ELSE /\ vloop' = [vloop EXCEPT !.pc = "payload", !.size = size, !.aligned = aligned]
                  /\ skipped' = skipped
    /\ UNCHANGED framesSent
    /\ UNCHANGED nonVideoVars

\* jpeg_data = recv_exact(self._video_sock, size); bytes_recv += size;
\* on_frame(jpeg_data).
VideoReadPayload ==
    /\ vloop.pc = "payload"
    /\ Len(videoWire) >= vloop.size
    /\ videoWire' = SubSeq(videoWire, vloop.size + 1, Len(videoWire))
    /\ vloop' = [vloop EXCEPT !.pc = "header", !.frames = @ + 1,
                              !.bytes_recv = @ + vloop.size]
    /\ UNCHANGED <<framesSent, skipped>>
    /\ UNCHANGED nonVideoVars

VideoIdle ==
    /\ videoWire = <<>>
    /\ framesSent = 0
    /\ vloop = [pc |-> "header", size |-> 0, aligned |-> TRUE, frames |-> 0, bytes_recv |-> 0]
    /\ skipped = 0

VideoInit == VideoIdle

VideoNext ==
    \/ \E n \in 0..MaxJpeg : \E jpeg \in [1..n -> JpegBytes] : OnFrameSend(jpeg)
    \/ VideoReadHeader
    \/ VideoReadPayload

(***************************************************************************)
(* Control requests: the request loop of ClientSession.run, the handlers   *)
(* of RPCHandler it dispatches to, and the capture parameters and staging  *)
(* directory they act on.                                                  *)
(***************************************************************************)

\* JSON values, by Python type.  A key that is not in the object is Absent.
Str(s)  == [kind |-> "str",  s |-> s,  n |-> 0]
Num(n)  == [kind |-> "int",  s |-> "", n |-> n]
List    == [kind |-> "list", s |-> "", n |-> 1]      \* a non-empty list
Dict    == [kind |-> "dict", s |-> "", n |-> 0]      \* {}
Absent  == [kind |-> "absent", s |-> "", n |-> 0]

Keys == {"type", "fps", "quality", "session_id", "filename", "destination", "metadata", "size"}

\* A request object with the given members.
Obj(members) == members @@ [k \in Keys |-> Absent]

\* msg.get(key, default)
get(msg, key, default) == IF msg[key].kind = "absent" THEN default ELSE msg[key]

\* Python truth value: `not v` is ~Truthy(v); None (an absent key read
\* without default) is false.
Truthy(v) ==
    CASE v.kind = "str" -> v.s # ""
      [] v.kind = "int" -> v.n # 0
      [] v.kind = "list" -> TRUE
      [] OTHER -> FALSE

\* The path components of the file names used here, split on "/".
PathParts(s) ==
    CASE s = "sub/a.txt" -> <<"sub", "a.txt">>
      [] s = "../b.txt"  -> <<"..", "b.txt">>
      [] s = "a.txt/"    -> <<"a.txt", "">>
      [] s = "sub/.."    -> <<"sub", "..">>
      [] s = "/"         -> <<"", "">>
      [] s = ""          -> <<>>
      [] OTHER           -> <<s>>

\* pathlib.Path(s).name: the last component, trailing separators dropped.
RECURSIVE LastComponent(_)
LastComponent(parts) ==
    IF parts = <<>> THEN ""
    ELSE IF parts[Len(parts)] # "" THEN parts[Len(parts)]
    ELSE LastComponent(SubSeq(parts, 1, Len(parts) - 1))

PathName(s) == LastComponent(PathParts(s))

\* The session whose staging directory exists on the server.
SessionId == "0123456789ab"

\* What serving one request does: the responses written to the control
\* socket, whether an exception left run() (`raised`), and the new capture
\* parameters, staging directory and moves.
Outcome(resps, raised, cap, st, mv) ==
    [resps |-> resps, raised |-> raised, capture |-> cap, staged |-> st, moved |-> mv]

Err(error) == Resp(FALSE, "", 0, error)
Ok(type)   == Resp(TRUE, type, 0, "")

\* ScreenCapture.set_params: no clamping; `self._fps = fps` is assigned
\* before 1.0 / fps is evaluated (ZeroDivisionError for 0), and quality is
\* assigned only if that did not raise.
set_params(cap, fps, quality) ==
    LET c1 == IF fps.kind = "absent" THEN cap ELSE [cap EXCEPT !.fps = fps.n]
        zero == fps.kind # "absent" /\ fps.n = 0
        c2 == IF zero \/ quality.kind = "absent" THEN c1 ELSE [c1 EXCEPT !.quality = quality.n]
    IN [capture |-> c2, raised |-> zero]

\* RPCHandler.handle_set_capture_params (integer or absent fps and quality).
handle_set_capture_params(msg, cap, st, mv) ==
    LET r == set_params(cap, msg["fps"], msg["quality"]) IN
    IF r.raised THEN Outcome(<<Err("float division by zero")>>, FALSE, r.capture, st, mv)
    ELSE Outcome(<<Ok("")>>, FALSE, r.capture, st, mv)

\* RPCHandler.handle_place_staged.  move_ok: shutil.move succeeded.
handle_place_staged(msg, cap, st, mv, move_ok) ==
    LET session_id  == get(msg, "session_id", Str(""))
        filename    == get(msg, "filename", Str(""))
        destination == get(msg, "destination", Str(""))
        safe_name   == PathName(filename.s)
        src_exists  == session_id.s = SessionId /\ safe_name \in st
    IN
    IF ~Truthy(session_id) \/ ~Truthy(filename) \/ ~Truthy(destination)
    THEN Outcome(<<Err("Missing session_id, filename, or destination")>>, FALSE, cap, st, mv)
    ELSE IF session_id.kind # "str" \/ filename.kind # "str"
    THEN Outcome(<<Err("TypeError")>>, FALSE, cap, st, mv)    \* Path(...) raises, dispatch catches
    ELSE IF safe_name = ""
    THEN Outcome(<<Err("Invalid filename")>>, FALSE, cap, st, mv)
    ELSE IF ~src_exists
    THEN Outcome(<<Err("Staged file not found")>>, FALSE, cap, st, mv)
    ELSE IF destination.kind # "str" \/ ~move_ok
    THEN Outcome(<<Err("move failed")>>, FALSE, cap, st, mv)
    ELSE Outcome(<<Ok("")>>, FALSE, cap, IF safe_name = ".." THEN {} ELSE st \ {safe_name},
                 mv \cup {[src |-> safe_name, dst |-> destination.s]})

\* ClientSession._handle_file_send with nothing in the outbox: `if not
\* filename`, then Path(filename), which raises TypeError outside any try
\* for a filename that is not a string.
handle_file_send(msg, cap, st, mv) ==
    LET filename == get(msg, "filename", Str("")) IN
    IF ~Truthy(filename) THEN Outcome(<<Err("No filename")>>, FALSE, cap, st, mv)
    ELSE IF filename.kind # "str" THEN Outcome(<<>>, TRUE, cap, st, mv)
    ELSE Outcome(<<Err("File not found")>>, FALSE, cap, st, mv)

\* ClientSession._handle_file_receive for a request that announces no
\* payload: meta.get(...) raises AttributeError outside the try unless
\* metadata is an object; `ready` is sent; a size that is not a number
\* raises inside the try (`remaining > 0`).
handle_file_receive(msg, cap, st, mv) ==
    LET meta == get(msg, "metadata", Dict)
        size == get(msg, "size", Num(0))
    IN
    IF meta.kind # "dict" THEN Outcome(<<>>, TRUE, cap, st, mv)
    ELSE IF size.kind # "int"
    THEN Outcome(<<Ok("ready"), Err("TypeError")>>, FALSE, cap, st, mv)
    ELSE Outcome(<<Ok("ready"), Resp(TRUE, "", sha256(<<>>), "")>>, FALSE, cap, st, mv)

\* The types RPCHandler has a handle_<type> method for, among those modelled.
HandlerTypes == {"ping", "set_capture_params", "place_staged"}

\* RPCHandler.dispatch: t.replace('-', '_') is evaluated before the try, so
\* a type that is not a string raises AttributeError out of dispatch; an
\* exception inside the handler is turned into {ok: false, error}.
rpc_dispatch(msg, cap, st, mv, move_ok) ==
    LET t == get(msg, "type", Str("")) IN
    IF t.kind # "str" THEN Outcome(<<>>, TRUE, cap, st, mv)
    ELSE IF t.s \notin HandlerTypes THEN Outcome(<<Err("Unknown RPC type")>>, FALSE, cap, st, mv)
    ELSE IF t.s = "ping" THEN Outcome(<<Ok("pong")>>, FALSE, cap, st, mv)
    ELSE IF t.s = "set_capture_params" THEN handle_set_capture_params(msg, cap, st, mv)
    ELSE handle_place_staged(msg, cap, st, mv, move_ok)

\* The body of run()'s request loop for one decoded line.
Serve(msg, cap, st, mv, move_ok) ==
    LET t == get(msg, "type", Str("")) IN
    IF t = Str("file_send") THEN handle_file_receive(msg, cap, st, mv)
    ELSE IF t = Str("file_get") THEN handle_file_send(msg, cap, st, mv)
    ELSE rpc_dispatch(msg, cap, st, mv, move_ok)

\* The request objects a client may send.
CaptureValues == {0 - 5, 0, 1, 30, 60, 120, 121, 39, 40, 100, 101}
FileNames == {"a.txt", "sub/a.txt", "../b.txt", "a.txt/", "sub/..", "/", ""}
Destinations == {"~/Desktop/a.txt"}

CaptureRequests ==
    { Obj("type" :> Str("set_capture_params") @@ "fps" :> f @@ "quality" :> q) :
        f \in {Absent, Num(0), Num(0 - 5), Num(1), Num(121)},
        q \in {Absent, Num(39), Num(100), Num(101)} }

PlaceRequests ==
    { Obj("type" :> Str("place_staged") @@ "session_id" :> Str(SessionId)
          @@ "filename" :> Str(f) @@ "destination" :> Str(d)) :
        f \in FileNames, d \in Destinations }

OtherRequests ==
    { Obj("type" :> Str("ping")),
      Obj("type" :> Str("no_such_type")),
      Obj("type" :> Num(5)),
      Obj("type" :> List),
      Obj("fps" :> Num(30)),
      Obj("type" :> Str("place_staged") @@ "filename" :> Str("a.txt")),
      Obj("type" :> Str("place_staged") @@ "session_id" :> Str(SessionId)
          @@ "filename" :> Num(7) @@ "destination" :> Str("~/Desktop/a.txt")),
      Obj("type" :> Str("file_get")),
      Obj("type" :> Str("file_get") @@ "filename" :> Str("a.txt")),
      Obj("type" :> Str("file_get") @@ "filename" :> Num(7)),
      Obj("type" :> Str("file_send")),
      Obj("type" :> Str("file_send") @@ "size" :> Str("12")),
      Obj("type" :> Str("file_send") @@ "metadata" :> List) }

Requests == CaptureRequests \cup PlaceRequests \cup OtherRequests

\* max(lo, min(v, hi))
clamp(v, lo, hi) ==
    LET m == IF v < hi THEN v ELSE hi IN IF lo > m THEN lo ELSE m

\* ScreenCapture.__init__(fps, quality)
ScreenCaptureInit(fps, quality) ==
    [fps |-> clamp(fps, FPS_MIN, FPS_MAX), quality |-> clamp(quality, QUALITY_MIN, QUALITY_MAX)]

NoRequest == Obj(<<>>)

\* run(): one line read and decoded, the request served, its responses
\* written; an exception that is not an OSError leaves the loop through
\* `finally: self._cleanup()`.
CtlRequest(msg, move_ok) ==
    /\ ctl.pc = "serving" /\ ctl.handled < MaxRequests
    /\ LET out == Serve(msg, capture, staged, moved, move_ok) IN
       /\ ctl' = [pc |-> IF out.raised THEN "crashed" ELSE "serving",
                  handled |-> ctl.handled + 1, req |-> msg, resps |-> out.resps,
                  did |-> out.moved \ moved]
       /\ capture' = out.capture
       /\ staged' = out.staged
       /\ moved' = out.moved
    /\ UNCHANGED nonControlVars

\* run(): _recv_line returns "" (the client closed): break, then _cleanup.
CtlEof ==
    /\ ctl.pc = "serving"
    /\ ctl' = [ctl EXCEPT !.pc = "closed"]
    /\ UNCHANGED <<capture, staged, moved>>
    /\ UNCHANGED nonControlVars

ControlIdle ==
    /\ ctl = [pc |-> "serving", handled |-> 0, req |-> NoRequest, resps |-> <<>>, did |-> {}]
    /\ capture = ScreenCaptureInit(60, 85)
    /\ staged = {".."}
    /\ moved = {}

\* A session past its handshake, the capture constructed from arbitrary
\* integers, some files uploaded to the session's staging directory.
ControlInit ==
    /\ ctl = [pc |-> "serving", handled |-> 0, req |-> NoRequest, resps |-> <<>>, did |-> {}]
    /\ \E f \in CaptureValues, q \in CaptureValues : capture = ScreenCaptureInit(f, q)
    /\ \E files \in SUBSET {"a.txt", "b.txt"} : staged = files \cup {".."}
    /\ moved = {}

ControlNext ==
    \/ \E msg \in Requests, move_ok \in BOOLEAN : CtlRequest(msg, move_ok)
    \/ CtlEof

(***************************************************************************)
(* Listeners: DGXService.start starts one thread per listener; each binds  *)
(* its port itself (_make_server) before it accepts.                       *)
(***************************************************************************)
Tags == {"discovery", "rpc", "video", "input"}
DataPorts == {22010, 22011, 22012}

\* The port a listener thread is given.
PortOf(tag) == IF tag = "discovery" THEN DISCOVERY_PORT ELSE ports[tag]

\* The ports on which this service's listeners are bound and accepting.
Bound(l) == {PortOf(tag) : tag \in {t \in Tags : l[t] = "bound"}}

\* _make_server(port) in the listener's thread: bind raises OSError when the
\* port is taken (by another process or by another listener of this
\* service); the exception ends the thread, nothing else learns of it.
ListenerBind(tag) ==
    /\ listener[tag] = "unstarted"
    /\ listener' = [listener EXCEPT ![tag] =
                       IF PortOf(tag) \in busy \cup Bound(listener) THEN "failed" ELSE "bound"]
    /\ UNCHANGED <<ports, busy, negReplies>>
    /\ UNCHANGED nonListenVars

\* _handle_negotiation with no session active: the reply is the three
\* configured ports.
NegotiateReply ==
    /\ listener["discovery"] = "bound"
    /\ Len(negReplies) < MaxReplies
    /\ negReplies' = Append(negReplies,
                        [rpc |-> ports["rpc"], video |-> ports["video"], input |-> ports["input"],
                         accepting |-> [t \in Tags \ {"discovery"} |-> listener[t] = "bound"]])
    /\ UNCHANGED <<ports, busy, listener>>
    /\ UNCHANGED nonListenVars

\* Another process releases or takes a port.
BusyChange(p) ==
    /\ p \in DataPorts \ Bound(listener)
    /\ busy' = IF p \in busy THEN busy \ {p} ELSE busy \cup {p}
    /\ UNCHANGED <<ports, listener, negReplies>>
    /\ UNCHANGED nonListenVars

\* DGXService(rpc_port, video_port, input_port) constructed, start() called.
ListenInit ==
    /\ ports \in [{"rpc", "video", "input"} -> DataPorts]
    /\ busy \in SUBSET DataPorts
    /\ listener = [t \in Tags |-> "unstarted"]
    /\ negReplies = <<>>

ListenIdle ==
    /\ ports = [t \in {"rpc", "video", "input"} |->
                   IF t = "rpc" THEN 22010 ELSE IF t = "video" THEN 22011 ELSE 22012]
    /\ busy = {}
    /\ listener = [t \in Tags |-> "unstarted"]
    /\ negReplies = <<>>

ListenNext ==
    \/ \E tag \in Tags : ListenerBind(tag)
    \/ NegotiateReply
    \/ \E p \in DataPorts : BusyChange(p)

(***************************************************************************)
(* Client connection manager: MainWindow's connect / watchdog logic, the   *)
(* negotiate-then-connect worker, and DGXConnection.                       *)
(***************************************************************************)
Min(a, b) == IF a < b THEN a ELSE b
Max(a, b) == IF a > b THEN a ELSE b

\* max(3, config.reconnect_interval)
base_interval == Max(BACKOFF_FLOOR, config.reconnect_interval)

\* A backoff whose exponent is not limited.
backoff_interval_unlimited(base, fail_count) ==
    Min(BACKOFF_CAP, base * 2 ^ (fail_count - 1))

\* _on_connect_failure: min(60, base * (2 ** min(fail_count - 1, 4)))
backoff_interval(base, fail_count) ==
    Min(BACKOFF_CAP, base * 2 ^ Min(fail_count - 1, BACKOFF_DOUBLINGS))

\* DGXConnection.__init__
NewConnection ==
    [connected |-> FALSE, rpc |-> "none", video |-> "none", input |-> "none",
     video_loop |-> FALSE, events |-> 0, last |-> "", err |-> {}, calls |-> 0]

\* DGXConnection.disconnect: _connected = False, close the three sockets,
\* forget them, call on_disconnect.
disconnect(c) ==
    [c EXCEPT !.connected = FALSE, !.rpc = "none", !.video = "none", !.input = "none",
              !.events = @ + 1]

\* MainWindow._connect: a new DGXConnection and a _NegotiateConnectWorker,
\* unless an attempt is in progress.
Connect ==
    /\ ~win.is_connecting
    /\ win.attempts < MaxAttempts
    /\ win' = [win EXCEPT !.is_connecting = TRUE, !.pc = "negotiate", !.attempts = @ + 1,
                          !.neg_ok = FALSE, !.opened = 0]
    /\ cli' = NewConnection
    /\ UNCHANGED config

\* MainWindow._toggle_connection: disconnect when connected, else _connect.
ToggleConnection ==
    /\ win.pc = "idle"
    /\ IF cli.connected
       THEN cli' = disconnect(cli) /\ UNCHANGED <<win, config>>
       ELSE Connect
    /\ UNCHANGED nonClientVars

\* MainWindow._watchdog_tick, fired when the watchdog interval has elapsed.
WatchdogTick ==
    /\ win.pc = "idle"
    /\ config.auto_reconnect
    /\ ~cli.connected
    /\ Connect
    /\ UNCHANGED nonClientVars

\* _NegotiateConnectWorker.run, step 1: negotiate_ports returns the triplet,
\* or None on a connect error, a timeout or an {ok: false} reply; with None
\* the worker falls back to the saved ports and goes on.
Negotiate(result) ==
    /\ win.pc = "negotiate"
    /\ win' = [win EXCEPT !.pc = "connect", !.neg_ok = (result = "triplet")]
    /\ UNCHANGED <<config, cli>>
    /\ UNCHANGED nonClientVars

\* _NegotiateConnectWorker.run, step 2: DGXConnection.connect opens control
\* (with handshake), video and input in turn; `failed_at` is the socket whose
\* connect or handshake fails (0: none).  A failure calls disconnect() and
\* raises; the worker emits success or failure.
ConnectSockets(failed_at) ==
    /\ win.pc = "connect"
    /\ LET opened == IF failed_at = 0 THEN 3 ELSE failed_at - 1 IN
       IF failed_at = 0
       THEN /\ cli' = [cli EXCEPT !.connected = TRUE, !.rpc = "open", !.video = "open",
                                  !.input = "open", !.video_loop = TRUE]
            /\ win' = [win EXCEPT !.pc = "success", !.opened = opened]
       ELSE /\ cli' = disconnect(cli)
            /\ win' = [win EXCEPT !.pc = "failure", !.opened = opened]
    /\ UNCHANGED config
    /\ UNCHANGED nonClientVars

\* MainWindow._on_connect_success
OnConnectSuccess ==
    /\ win.pc = "success"
    /\ win' = [win EXCEPT !.pc = "idle", !.is_connecting = FALSE, !.fail_count = 0,
                          !.interval = base_interval]
    /\ UNCHANGED <<config, cli>>
    /\ UNCHANGED nonClientVars

\* MainWindow._on_connect_failure
OnConnectFailure ==
    /\ win.pc = "failure"
    /\ win' = IF config.auto_reconnect
              THEN [win EXCEPT !.pc = "idle", !.is_connecting = FALSE,
                               !.fail_count = @ + 1,
                               !.interval = backoff_interval(base_interval, win.fail_count + 1)]
              ELSE [win EXCEPT !.pc = "idle", !.is_connecting = FALSE]
    /\ UNCHANGED <<config, cli>>
    /\ UNCHANGED nonClientVars

\* DGXConnection.rpc under _rpc_lock.  outcome: a reply line arrives, the
\* socket timeout expires, or send/recv raises another exception.
Rpc(outcome) ==
    /\ win.pc = "idle"
    /\ cli.calls < MaxCalls
    /\ cli' = IF cli.rpc = "none"
              THEN [cli EXCEPT !.last = "not_connected", !.calls = @ + 1]
              ELSE CASE outcome = "reply"   -> [cli EXCEPT !.last = "ok", !.calls = @ + 1]
                     [] outcome = "timeout" -> [cli EXCEPT !.last = "timeout", !.calls = @ + 1]
                     [] OTHER               -> [cli EXCEPT !.last = "error", !.calls = @ + 1,
                                                           !.connected = FALSE,
                                                           !.err = @ \cup {"control"}]
    /\ UNCHANGED <<config, win>>
    /\ UNCHANGED nonClientVars

\* DGXConnection._send_input: returns at once without a socket or when not
\* connected; an exception of send_json only clears _connected.
SendInput(ok) ==
    /\ win.pc = "idle"
    /\ cli.calls < MaxCalls
    /\ cli' = IF cli.input = "none" \/ ~cli.connected \/ ok
              THEN [cli EXCEPT !.calls = @ + 1]
              ELSE [cli EXCEPT !.calls = @ + 1, !.connected = FALSE, !.err = @ \cup {"input"}]
    /\ UNCHANGED <<config, win>>
    /\ UNCHANGED nonClientVars

\* DGXConnection._video_loop: recv raises (ConnectionError, OSError,
\* struct.error): break, then _connected = False and on_disconnect().
VideoError ==
    /\ cli.video_loop
    /\ cli' = [cli EXCEPT !.video_loop = FALSE, !.connected = FALSE, !.events = @ + 1,
                          !.err = IF cli.video = "open" THEN @ \cup {"video"} ELSE @]
    /\ UNCHANGED <<config, win>>
    /\ UNCHANGED nonClientVars

\* DGXConnection._video_loop: `while self._connected and self._video_sock`
\* is false after a frame: the loop ends, then on_disconnect().
VideoLoopEnd ==
    /\ cli.video_loop
    /\ ~cli.connected \/ cli.video = "none"
    /\ cli' = [cli EXCEPT !.video_loop = FALSE, !.connected = FALSE, !.events = @ + 1]
    /\ UNCHANGED <<config, win>>
    /\ UNCHANGED nonClientVars

ReconnectIntervals == {1, 3, 5, 40}

NewWindow ==
    [pc |-> "idle", is_connecting |-> FALSE, fail_count |-> 0, interval |-> base_interval,
     attempts |-> 0, neg_ok |-> FALSE, opened |-> 0]

\* MainWindow.__init__ with a loaded Config.
ClientInit ==
    /\ config \in [reconnect_interval : ReconnectIntervals, auto_reconnect : BOOLEAN]
    /\ win = NewWindow
    /\ cli = NewConnection

ClientIdle ==
    /\ config = [reconnect_interval |-> 5, auto_reconnect |-> TRUE]
    /\ win = NewWindow
    /\ cli = NewConnection

ClientNext ==
    \/ ToggleConnection
    \/ WatchdogTick
    \/ \E result \in {"triplet", "connect_error", "timeout", "rejected"} : Negotiate(result)
    \/ \E failed_at \in 0..3 : ConnectSockets(failed_at)
    \/ OnConnectSuccess
    \/ OnConnectFailure
    \/ \E outcome \in {"reply", "timeout", "error"} : Rpc(outcome)
    \/ \E ok \in BOOLEAN : SendInput(ok)
    \/ VideoError
    \/ VideoLoopEnd

(***************************************************************************)
(* The control socket as a stream from the server to the client: request   *)
(* lines one way; response lines, file bytes and unsolicited pushes the    *)
(* other way.  A line is one unit of the stream, a file byte another.      *)
(***************************************************************************)
NoMsg == [type |-> "", ok |-> FALSE, size |-> 0, call |-> 0, error |-> ""]
Envelope(type, ok, size, call, error) ==
    [type |-> type, ok |-> ok, size |-> size, call |-> call, error |-> error]

LineUnit(msg) == [k |-> "line", msg |-> msg, v |-> 0]
ByteUnit(v)   == [k |-> "byte", msg |-> NoMsg, v |-> v]

\* What the server writes goes to the client and is remembered.
Write(st, units) == [st EXCEPT !.out = @ \o units, !.log = @ \o units]

\* shared/protocol.py recv_line over the first m units of the stream (all
\* that conn.recv(4096) returned up to the first newline and past it):
\* buf.split(b"\n")[0] is the text before the first newline; whatever was
\* received after it is dropped.  The text is an envelope only when no file
\* byte precedes the line.
recv_line(units) ==
    IF units[1].k = "line" THEN units[1].msg
    ELSE Envelope("", FALSE, 0, 0, "JSONDecodeError")

\* The numbers of units a recv_line may take from `out`: at least up to the
\* first line, at most all that has arrived.
LineReads(out) ==
    {m \in 1..Len(out) : \E i \in 1..m : out[i].k = "line"}

\* ClientSession.run reads a request line and dispatches on its type:
\* file_get goes to _handle_file_send (header, then the stream); every other
\* type to RPCHandler.dispatch, which knows no get_file.
StreamRequest ==
    /\ dsrv.pc = "line"
    /\ stream.req # <<>>
    /\ LET msg == Head(stream.req)
           st  == [stream EXCEPT !.req = Tail(@)]
       IN
       IF msg.type = "file_get"
       THEN IF dsrv.file = <<>>
            THEN /\ stream' = Write(st, <<LineUnit(Envelope("", FALSE, 0, msg.call, "File not found"))>>)
                 /\ dsrv' = [dsrv EXCEPT !.handler = "file_send"]
            ELSE /\ stream' = Write(st, <<LineUnit(Envelope("file_data", TRUE, Len(dsrv.file), msg.call, ""))>>)
                 /\ dsrv' = [dsrv EXCEPT !.pc = "sendfile", !.sent = 0, !.handler = "file_send"]
       ELSE /\ stream' = Write(st, <<LineUnit(
                  IF msg.type = "ping" THEN Envelope("pong", TRUE, 0, msg.call, "")
                  ELSE Envelope("", FALSE, 0, msg.call, "Unknown RPC type"))>>)
            /\ dsrv' = [dsrv EXCEPT !.handler = "dispatch"]
    /\ UNCHANGED dcl
    /\ UNCHANGED nonStreamVars

\* _handle_file_send: fh.read(CHUNK), sendall(chunk).
StreamChunk ==
    /\ dsrv.pc = "sendfile" /\ dsrv.sent < Len(dsrv.file)
    /\ LET n == ChunkLen(Len(dsrv.file) - dsrv.sent) IN
       /\ stream' = Write(stream, [i \in 1..n |-> ByteUnit(dsrv.file[dsrv.sent + i])])
       /\ dsrv' = [dsrv EXCEPT !.sent = @ + n]
    /\ UNCHANGED dcl
    /\ UNCHANGED nonStreamVars

\* _handle_file_send returns {ok: True, sha256}; run() writes it.
StreamFinish ==
    /\ dsrv.pc = "sendfile" /\ dsrv.sent = Len(dsrv.file)
    /\ stream' = Write(stream, <<LineUnit(Envelope("", TRUE, 0, 1, ""))>>)
    /\ dsrv' = [dsrv EXCEPT !.pc = "line"]
    /\ UNCHANGED dcl
    /\ UNCHANGED nonStreamVars

\* _cursor_push_loop (cursor_shape) and _on_resolution_change
\* (resolution_changed): another thread writes a push line whenever the
\* cursor or the resolution changes.
Push(type) ==
    /\ dsrv.pushes < MaxPushes
    /\ stream' = Write(stream, <<LineUnit(Envelope(type, FALSE, 0, 0, ""))>>)
    /\ dsrv' = [dsrv EXCEPT !.pushes = @ + 1]
    /\ UNCHANGED dcl
    /\ UNCHANGED nonStreamVars

\* ---- the client ----
NoResult == Envelope("none", FALSE, 0, 0, "")

\* A caller's request line: DGXConnection.get_file writes type "get_file";
\* a caller following the wire protocol writes "file_get"; rpc() writes the
\* request it was given (a ping here).
RequestType(kind) ==
    CASE kind = "get_file" -> "get_file"
      [] kind = "file_get" -> "file_get"
      [] OTHER             -> "ping"

\* send_json(sock, request) under the rpc lock.
CallSend ==
    /\ dcl.pc = "idle" /\ dcl.call < MaxCalls
    /\ dcl.kind = "rpc" \/ dcl.call = 0
    /\ stream' = [stream EXCEPT !.req = Append(@, Envelope(RequestType(dcl.kind), TRUE, 0, dcl.call + 1, ""))]
    /\ dcl' = [dcl EXCEPT !.pc = "header", !.call = @ + 1, !.result = NoResult]
    /\ UNCHANGED dsrv
    /\ UNCHANGED nonStreamVars

\* rpc(): raw = recv_line(sock); return json.loads(raw).  A line that is
\* not JSON raises, the connection is marked dead and an error returned.
RpcReturn(m) ==
    /\ dcl.kind = "rpc" /\ dcl.pc = "header"
    /\ m \in LineReads(stream.out)
    /\ stream' = [stream EXCEPT !.out = SubSeq(@, m + 1, Len(@))]
    /\ dcl' = [dcl EXCEPT !.pc = "idle", !.result = recv_line(stream.out)]
    /\ UNCHANGED dsrv
    /\ UNCHANGED nonStreamVars

\* _rpc_push_loop: with the rpc lock free (no call in flight) it reads one
\* line and handles it by type; pongs and unknown types are swallowed.
PushLoopRead(m) ==
    /\ dcl.kind = "rpc" /\ dcl.pc = "idle"
    /\ m \in LineReads(stream.out)
    /\ stream' = [stream EXCEPT !.out = SubSeq(@, m + 1, Len(@))]
    /\ UNCHANGED <<dsrv, dcl>>
    /\ UNCHANGED nonStreamVars

\* get_file: header = json.loads(recv_line(sock)); a header without a
\* truthy "ok" is returned to the caller as it is.
GetFileHeader(m) ==
    /\ dcl.kind \in {"get_file", "file_get"} /\ dcl.pc = "header"
    /\ m \in LineReads(stream.out)
    /\ stream' = [stream EXCEPT !.out = SubSeq(@, m + 1, Len(@))]
    /\ LET header == recv_line(stream.out) IN
       dcl' = IF header.ok
              THEN [dcl EXCEPT !.pc = IF header.size = 0 THEN "final" ELSE "body",
                               !.size = header.size, !.recv = 0]
              ELSE [dcl EXCEPT !.pc = "returned", !.result = header]
    /\ UNCHANGED dsrv
    /\ UNCHANGED nonStreamVars

\* What a unit read as raw data puts in the local file: the file byte, or
\* the text of a line that was in the way (0: no byte of the file).
RawByte(u) == IF u.k = "byte" THEN u.v ELSE 0

\* get_file: chunk = sock.recv(min(CHUNK_SIZE, size - recv)); fh.write(chunk).
GetFileRecv ==
    /\ dcl.kind \in {"get_file", "file_get"} /\ dcl.pc = "body"
    /\ stream.out # <<>>
    /\ LET n == Min(Len(stream.out), ChunkLen(dcl.size - dcl.recv)) IN
       /\ stream' = [stream EXCEPT !.out = SubSeq(@, n + 1, Len(@))]
       /\ dcl' = [dcl EXCEPT !.recv = @ + n,
                             !.written = @ \o [i \in 1..n |-> RawByte(stream.out[i])],
                             !.pc = IF dcl.recv + n = dcl.size THEN "final" ELSE "body"]
    /\ UNCHANGED dsrv
    /\ UNCHANGED nonStreamVars

\* get_file: result = json.loads(recv_line(sock)); the "checksum" key it
\* compares is never sent, so any JSON line here makes it return ok.
GetFileResult(m) ==
    /\ dcl.kind \in {"get_file", "file_get"} /\ dcl.pc = "final"
    /\ m \in LineReads(stream.out)
    /\ stream' = [stream EXCEPT !.out = SubSeq(@, m + 1, Len(@))]
    /\ LET result == recv_line(stream.out) IN
       dcl' = [dcl EXCEPT !.pc = "returned",
                          !.result = IF result.error = "JSONDecodeError" THEN result
                                     ELSE Envelope("", TRUE, dcl.size, dcl.call, "")]
    /\ UNCHANGED dsrv
    /\ UNCHANGED nonStreamVars

StreamKinds == {"get_file", "file_get", "rpc"}

NewStream(kind, file) ==
    /\ stream = [req |-> <<>>, out |-> <<>>, log |-> <<>>]
    /\ dsrv = [pc |-> "line", file |-> file, sent |-> 0, pushes |-> 0, handler |-> "none"]
    /\ dcl = [kind |-> kind, pc |-> "idle", call |-> 0, size |-> 0, recv |-> 0,
              written |-> <<>>, result |-> NoResult]

\* <<>> stands for a file that is not in the folder.
StreamInit == \E kind \in StreamKinds, file \in Files : NewStream(kind, file)

StreamIdle == NewStream("none", <<>>)

StreamNext ==
    \/ StreamRequest
    \/ StreamChunk
    \/ StreamFinish
    \/ \E type \in {"cursor_shape", "resolution_changed"} : Push(type)
    \/ CallSend
    \/ \E m \in 1..Len(stream.out) : RpcReturn(m)
    \/ \E m \in 1..Len(stream.out) : PushLoopRead(m)
    \/ \E m \in 1..Len(stream.out) : GetFileHeader(m)
    \/ GetFileRecv
    \/ \E m \in 1..Len(stream.out) : GetFileResult(m)

(***************************************************************************)
(* The resolution watcher.                                                 *)
(***************************************************************************)
Resolutions == {<<FALLBACK_W, FALLBACK_H>>, <<2560, 1440>>, <<3840, 2160>>}

\* _get_xrandr_current: the display's mode, or the fallback size when the
\* subprocess fails (missing binary, non-zero exit, timeout) or nothing in
\* its output matches.
get_xrandr_current(ok) == IF ok THEN display ELSE <<FALLBACK_W, FALLBACK_H>>

\* _on_resolution_change with a running session: one resolution_changed
\* push with the new size.
on_resolution_change(pushed, new) == Append(pushed, new)

\* ResolutionMonitor._loop, one tick: query, compare, store, call back.
MonitorTick(ok) ==
    /\ mon.ticks < MaxTicks
    /\ LET new == get_xrandr_current(ok) IN
       mon' = IF new # mon.current
              THEN [current |-> new, ticks |-> mon.ticks + 1, failed |-> ~ok,
                    pushed |-> on_resolution_change(mon.pushed, new)]
              ELSE [mon EXCEPT !.ticks = @ + 1, !.failed = ~ok]
    /\ UNCHANGED display
    /\ UNCHANGED nonMonitorVars

\* The display's mode is changed (xrandr --mode, a monitor plugged in).
DisplayChange(r) ==
    /\ r \in Resolutions /\ r # display
    /\ display' = r
    /\ UNCHANGED mon
    /\ UNCHANGED nonMonitorVars

\* ResolutionMonitor.start: the first query sets the current value.
MonitorStart(r, ok) ==
    /\ display = r
    /\ mon = [current |-> IF ok THEN r ELSE <<FALLBACK_W, FALLBACK_H>>,
              ticks |-> 0, failed |-> FALSE, pushed |-> <<>>]

MonitorInit == \E r \in Resolutions, ok \in BOOLEAN : MonitorStart(r, ok)

MonitorIdle == MonitorStart(<<FALLBACK_W, FALLBACK_H>>, TRUE)

MonitorNext ==
    \/ \E ok \in BOOLEAN : MonitorTick(ok)
    \/ \E r \in Resolutions : DisplayChange(r)

(***************************************************************************)
(* ScreenCapture: start, stop and the capture threads.                     *)
(***************************************************************************)
ThreadIds == 1..MaxThreads

Started == DOMAIN capThreads

\* Threads that have been started and have not exited.
Alive == {t \in Started : capThreads[t] # "dead"}

\* ScreenCapture.start: returns when _running is set; otherwise sets it and
\* starts a new thread on _loop.
capture_start ==
    /\ scap.caller = "idle"
    /\ Cardinality(Started) < MaxThreads
    /\ IF scap.running
       THEN UNCHANGED <<scap, capThreads>>
       ELSE LET t == Cardinality(Started) + 1 IN
            /\ scap' = [scap EXCEPT !.running = TRUE, !.thread = t]
            /\ capThreads' = (t :> "check") @@ capThreads
    /\ UNCHANGED nonCaptureVars

\* ScreenCapture.stop, first half: _running = False; with a thread on
\* record the caller goes on to join it.
capture_stop ==
    /\ scap.caller = "idle"
    /\ scap' = [scap EXCEPT !.running = FALSE,
                          !.caller = IF scap.thread # 0 THEN "join" ELSE "idle"]
    /\ UNCHANGED capThreads
    /\ UNCHANGED nonCaptureVars

\* ScreenCapture.stop, second half: join(timeout=2.0) returns because the
\* thread has exited, or because two seconds have passed with the thread
\* still inside a grab, an encode or the frame callback; _thread = None
\* either way.
capture_join ==
    /\ scap.caller = "join"
    /\ capThreads[scap.thread] \in {"dead", "busy"}
    /\ scap' = [scap EXCEPT !.thread = 0, !.caller = "idle"]
    /\ UNCHANGED capThreads
    /\ UNCHANGED nonCaptureVars

\* _loop: while self._running.
LoopCheck(t) ==
    /\ t \in Started /\ capThreads[t] = "check"
    /\ capThreads' = [capThreads EXCEPT ![t] = IF scap.running THEN "busy" ELSE "dead"]
    /\ UNCHANGED scap
    /\ UNCHANGED nonCaptureVars

\* _loop body: grab, encode, callback, throttle.
LoopFrame(t) ==
    /\ t \in Started /\ capThreads[t] = "busy"
    /\ capThreads' = [capThreads EXCEPT ![t] = "check"]
    /\ UNCHANGED scap
    /\ UNCHANGED nonCaptureVars

\* _loop body raising (sct.grab on a lost display, the encoder, a callback
\* error other than OSError): nothing catches it, the thread ends.
LoopRaise(t) ==
    /\ t \in Started /\ capThreads[t] = "busy"
    /\ capThreads' = [capThreads EXCEPT ![t] = "dead"]
    /\ UNCHANGED scap
    /\ UNCHANGED nonCaptureVars

\* ScreenCapture.__init__.
CaptureInit ==
    /\ scap = [running |-> FALSE, thread |-> 0, caller |-> "idle"]
    /\ capThreads = <<>>

CaptureIdle == CaptureInit

CaptureNext ==
    \/ capture_start
    \/ capture_stop
    \/ capture_join
    \/ \E t \in ThreadIds : LoopCheck(t)
    \/ \E t \in ThreadIds : LoopFrame(t)
    \/ \E t \in ThreadIds : LoopRaise(t)

(***************************************************************************)
(* ClientSession.run reading lines from one control connection.            *)
(***************************************************************************)
\* What a client can write as one line: its text is a JSON object with the
\* given type, JSON that is no object, or no JSON at all; len is its length.
LineTexts == {"hello", "ping", "not_object", "not_json"}
ControlLines == [text : LineTexts, len : 1..(LINE_MAX + 1)]

\* _recv_line: bytes up to the newline; ValueError once the buffer is
\* longer than maxlen.
RecvLineRaises(line) == line.len > LINE_MAX

\* json.loads(line) raising JSONDecodeError.
LoadsRaises(line) == line.text = "not_json"

\* msg.get("type") on a value that is no dict raising AttributeError.
GetRaises(line) == line.text = "not_object"

\* A line that breaks the protocol: too long, not JSON, not an object.
ProtocolError(line) == RecvLineRaises(line) \/ LoadsRaises(line) \/ GetRaises(line)

Read(line, pc, replies) ==
    [pc |-> pc, lines |-> Append(pconn.lines, line), replies |-> pconn.replies + replies,
     errors |-> pconn.errors + (IF ProtocolError(line) \/ (pconn.pc = "hello" /\ line.text # "hello") THEN 1 ELSE 0)]

\* run(), handshake: recv and json.loads are inside a try that cleans up;
\* hello.get is outside of it; a type other than hello is answered with an
\* error and cleaned up.
ProtoHello(line) ==
    /\ pconn.pc = "hello" /\ Len(pconn.lines) < MaxLines
    /\ pconn' = IF RecvLineRaises(line) \/ LoadsRaises(line) THEN Read(line, "closed", 0)
                ELSE IF GetRaises(line) THEN Read(line, "dead", 0)
                ELSE IF line.text # "hello" THEN Read(line, "closed", 1)
                ELSE Read(line, "loop", 1)
    /\ UNCHANGED nonProtoVars

\* run(), main loop: JSONDecodeError is skipped with `continue`; any other
\* exception leaves through the finally clause, which cleans up.
ProtoRequest(line) ==
    /\ pconn.pc = "loop" /\ Len(pconn.lines) < MaxLines
    /\ pconn' = IF RecvLineRaises(line) THEN Read(line, "closed", 0)
                ELSE IF LoadsRaises(line) THEN Read(line, "loop", 0)
                ELSE IF GetRaises(line) THEN Read(line, "closed", 0)
                ELSE Read(line, "loop", 1)
    /\ UNCHANGED nonProtoVars

\* The client closes the connection: _recv_line returns "", run() leaves
\* (the handshake through the "expected hello" branch).
ProtoEof ==
    /\ pconn.pc \in {"hello", "loop"}
    /\ pconn' = [pconn EXCEPT !.pc = "closed"]
    /\ UNCHANGED nonProtoVars

ProtoInit == pconn = [pc |-> "hello", lines |-> <<>>, replies |-> 0, errors |-> 0]

ProtoIdle == ProtoInit

ProtoNext ==
    \/ \E line \in ControlLines : ProtoHello(line)
    \/ \E line \in ControlLines : ProtoRequest(line)
    \/ ProtoEof

(***************************************************************************)
(* ClientSession._input_loop dispatching envelopes to the InputHandler.    *)
(***************************************************************************)
\* An input envelope: its type, whether it carries x and y, and whether the
\* injector backend raises when asked to perform it.
InputEvents == [type : {"mouse_move", "mouse_press", "key_press"},
                has_xy : BOOLEAN, raises : BOOLEAN]

\* The dispatch of one envelope raises: msg["x"] on a mouse_move without x
\* (KeyError), or the backend call itself.
DispatchRaises(ev) == (ev.type = "mouse_move" /\ ~ev.has_xy) \/ ev.raises

\* The client writes an envelope on the input socket.
InputWrite(ev) ==
    /\ iloop.sent < MaxEvents
    /\ iloop' = [iloop EXCEPT !.wire = Append(@, [ev |-> ev, n |-> iloop.sent + 1]),
                              !.sent = @ + 1]
    /\ UNCHANGED nonInjectVars

\* _input_loop, one turn: read a line, dispatch on its type.  The dispatch
\* is outside the try block: an exception ends the thread.
InputDispatch ==
    /\ iloop.pc = "recv" /\ iloop.wire # <<>>
    /\ LET e == Head(iloop.wire) IN
       iloop' = IF DispatchRaises(e.ev)
                THEN [iloop EXCEPT !.wire = Tail(@), !.pc = "dead"]
                ELSE [iloop EXCEPT !.wire = Tail(@), !.injected = Append(@, e.n)]
    /\ UNCHANGED nonInjectVars

\* _input_loop: the client closed the socket (empty line): break.
InputEof ==
    /\ iloop.pc = "recv" /\ iloop.wire = <<>>
    /\ iloop' = [iloop EXCEPT !.pc = "ended"]
    /\ UNCHANGED nonInjectVars

InjectInit == iloop = [pc |-> "recv", wire |-> <<>>, sent |-> 0, injected |-> <<>>]

InjectIdle == InjectInit

InjectNext ==
    \/ \E ev \in InputEvents : InputWrite(ev)
    \/ InputDispatch
    \/ InputEof

(***************************************************************************)
(* FileConverter: preparing a local text file for transfer.                *)
(***************************************************************************)
TextBytes == {"CR", "LF", "x"}
Texts == UNION {[1..n -> TextBytes] : n \in 0..MaxText}

\* b"\r\n" in data.
ContainsCRLF(data) == \E i \in 1..(Len(data) - 1) : data[i] = "CR" /\ data[i + 1] = "LF"

\* chunk.replace(b"\r\n", b"\n"): one pass from the left over the
\* non-overlapping occurrences.
RECURSIVE replace_crlf(_)
replace_crlf(chunk) ==
    IF chunk = <<>> THEN <<>>
    ELSE IF Len(chunk) >= 2 /\ chunk[1] = "CR" /\ chunk[2] = "LF"
         THEN <<"LF">> \o replace_crlf(SubSeq(chunk, 3, Len(chunk)))
         ELSE <<chunk[1]>> \o replace_crlf(Tail(chunk))

\* for chunk in iter(lambda: src.read(65536), b""): dst.write(chunk.replace(...))
RECURSIVE strip_crlf(_)
strip_crlf(data) ==
    IF data = <<>> THEN <<>>
    ELSE LET n == Min(Len(data), STRIP_CHUNK) IN
         replace_crlf(SubSeq(data, 1, n)) \o strip_crlf(SubSeq(data, n + 1, Len(data)))

\* analyze_file: has_crlf is looked for in the first 256 KB of a text file.
has_crlf(d) ==
    d.hint = "text" /\ ContainsCRLF(SubSeq(d.bytes, 1, Min(Len(d.bytes), SCAN_LIMIT)))

\* FileConverter.prepare / prepare_to_dir for a file that is no script:
\* the stripped copy, or the file as it is (unreadable, not text, no CRLF
\* found, OSError while stripping).
prepare_bytes(d, convert_crlf) ==
    IF ~d.readable THEN d.bytes
    ELSE IF convert_crlf /\ has_crlf(d) /\ d.io_ok THEN strip_crlf(d.bytes)
    ELSE d.bytes

Prepare(convert_crlf) ==
    /\ prepared.by = "none"
    /\ prepared' = [by |-> "prepare", convert_crlf |-> convert_crlf,
                    bytes |-> prepare_bytes(doc, convert_crlf)]
    /\ UNCHANGED doc
    /\ UNCHANGED nonConvertVars

PrepareToDir(convert_crlf) ==
    /\ prepared.by = "none"
    /\ prepared' = [by |-> "prepare_to_dir", convert_crlf |-> convert_crlf,
                    bytes |-> prepare_bytes(doc, convert_crlf)]
    /\ UNCHANGED doc
    /\ UNCHANGED nonConvertVars

NewDoc(bytes, hint, readable, io_ok) ==
    /\ doc = [bytes |-> bytes, hint |-> hint, readable |-> readable, io_ok |-> io_ok]
    /\ prepared = [by |-> "none", convert_crlf |-> TRUE, bytes |-> <<>>]

ConvertInit ==
    \E bytes \in Texts, hint \in {"text", "binary"}, readable \in BOOLEAN, io_ok \in BOOLEAN :
        NewDoc(bytes, hint, readable, io_ok)

ConvertIdle == NewDoc(<<>>, "binary", TRUE, TRUE)

ConvertNext ==
    \/ \E convert_crlf \in BOOLEAN : Prepare(convert_crlf)
    \/ \E convert_crlf \in BOOLEAN : PrepareToDir(convert_crlf)

(***************************************************************************)
(* The client's control socket: rpc(), send_file(), get_file() and the     *)
(* push reader, and the mutex _rpc_lock.                                   *)
(***************************************************************************)
Callers == {"rpc", "send_file", "get_file"}
PushReader == "push"

\* The socket operations each call performs, in order, inside
\* `with self._rpc_lock:`.
IoSteps(c) ==
    CASE c = "rpc"       -> <<"send_json", "recv_line">>
      [] c = "send_file" -> <<"send_json", "sendall", "recv_line">>
      [] c = "get_file"  -> <<"send_json", "recv_line", "recv", "recv_line">>

\* A thread calls rpc(), send_file() or get_file() and blocks on the mutex.
CallBegin(c) ==
    /\ lk.pc[c] = 0 /\ lk.calls < MaxLockCalls
    /\ lk' = [lk EXCEPT !.pc[c] = -1, !.calls = @ + 1]
    /\ UNCHANGED nonLockVars

\* `with self._rpc_lock:` entered; the first socket operation starts.
CallAcquire(c) ==
    /\ lk.pc[c] = -1 /\ lk.holder = ""
    /\ lk' = [lk EXCEPT !.holder = c, !.pc[c] = 1]
    /\ UNCHANGED nonLockVars

\* The next socket operation of the call.
CallStep(c) ==
    /\ lk.pc[c] \in 1..(Len(IoSteps(c)) - 1)
    /\ lk' = [lk EXCEPT !.pc[c] = @ + 1]
    /\ UNCHANGED nonLockVars

\* The call returns (after its last operation, or early through an except
\* branch); leaving the `with` block releases the mutex.
CallReturn(c) ==
    /\ lk.pc[c] \in 1..Len(IoSteps(c))
    /\ lk' = [lk EXCEPT !.holder = "", !.pc[c] = 0]
    /\ UNCHANGED nonLockVars

\* _rpc_push_loop: select() reports the socket readable (no lock held, no
\* byte read).
PushSelect ==
    /\ lk.pc[PushReader] = "select"
    /\ lk' = [lk EXCEPT !.pc[PushReader] = "try"]
    /\ UNCHANGED nonLockVars

\* A push reader that reads whether or not it got the mutex.
PushTryLock_ignore ==
    /\ lk.pc[PushReader] = "try"
    /\ lk' = [lk EXCEPT !.pc[PushReader] = "recv_line",
                        !.holder = IF lk.holder = "" THEN PushReader ELSE @]
    /\ UNCHANGED nonLockVars

\* _rpc_push_loop: self._rpc_lock.acquire(blocking=False); on failure back
\* to select.
PushTryLock ==
    /\ lk.pc[PushReader] = "try"
    /\ lk' = IF lk.holder = ""
             THEN [lk EXCEPT !.holder = PushReader, !.pc[PushReader] = "recv_line"]
             ELSE [lk EXCEPT !.pc[PushReader] = "select"]
    /\ UNCHANGED nonLockVars

\* _rpc_push_loop: the line is read (or the read times out); the finally
\* clause releases the mutex.
PushRelease ==
    /\ lk.pc[PushReader] = "recv_line"
    /\ lk' = [lk EXCEPT !.pc[PushReader] = "select",
                        !.holder = IF lk.holder = PushReader THEN "" ELSE @]
    /\ UNCHANGED nonLockVars

\* Threads that are reading from or writing to the control socket.
OnSocket ==
    {c \in Callers : lk.pc[c] \in 1..Len(IoSteps(c))}
    \cup {t \in {PushReader} : lk.pc[t] = "recv_line"}

NewLock(reader) ==
    lk = [holder |-> "", calls |-> 0,
          pc |-> [t \in Callers \cup {PushReader} |-> IF t = PushReader THEN reader ELSE 0]]

\* A connected DGXConnection: the push reader is running.
LockInit == NewLock("select")

LockIdle == NewLock("stopped")

LockNext ==
    \/ \E c \in Callers : CallBegin(c)
    \/ \E c \in Callers : CallAcquire(c)
    \/ \E c \in Callers : CallStep(c)
    \/ \E c \in Callers : CallReturn(c)
    \/ PushSelect
    \/ PushTryLock
    \/ PushRelease

(***************************************************************************)
(* MainWindow: Connect, the watchdog, the negotiate-then-connect workers   *)
(* and the callbacks queued for the GUI thread.                            *)
(***************************************************************************)
WorkerSlots == 1..MaxWorkers

FreeSlot == [pc |-> "free", connected |-> FALSE, loop |-> FALSE]

\* A worker that has been started and has not left run().
WorkerRunning(w) == slots[w].pc \in {"negotiate", "connect", "emit_failure"}

\* A slot can be taken again when its worker is gone, its connection has no
\* thread left, nothing of it is queued and it is not self.conn.
Reusable(w) ==
    /\ ~WorkerRunning(w) /\ ~slots[w].connected /\ ~slots[w].loop
    /\ ui.conn # w
    /\ \A i \in 1..Len(evq) : evq[i].w # w

\* bool(self.conn and self.conn.connected)
UiConnected == ui.conn # 0 /\ slots[ui.conn].connected

\* MainWindow._connect: nothing without an address or with an attempt in
\* progress; else a new DGXConnection becomes self.conn and a worker starts.
ui_connect(w) ==
    IF ~ui.ip \/ ui.is_connecting
    THEN UNCHANGED <<ui, slots>>
    ELSE /\ ui' = [ui EXCEPT !.is_connecting = TRUE, !.suppressed = TRUE, !.conn = w]
         /\ slots' = [slots EXCEPT ![w] = [pc |-> "negotiate", connected |-> FALSE, loop |-> FALSE]]

\* DGXConnection.disconnect: _connected = False, sockets closed,
\* on_disconnect() -> MainWindow._on_disconnect_signal, which emits the
\* disconnect signal unless the window is closing.
on_disconnect_signal(q, w) == IF ui.closing THEN q ELSE Append(q, [k |-> "disconnect", w |-> w])

\* MainWindow._toggle_connection from the Connect button: _connect when
\* not connected, else DGXConnection.disconnect, whose signal is emitted
\* on the GUI thread and so runs _on_disconnect_ui at once.
UiToggle(w) ==
    /\ ~ui.closing
    /\ IF UiConnected
       THEN /\ slots' = [slots EXCEPT ![ui.conn].connected = FALSE]
            /\ ui' = [ui EXCEPT !.is_connecting = FALSE, !.suppressed = FALSE]
            /\ UNCHANGED evq
       ELSE /\ Reusable(w)
            /\ ui_connect(w)
            /\ UNCHANGED evq
    /\ UNCHANGED nonReconnectVars

\* MainWindow._watchdog_tick.
UiWatchdogTick(w) ==
    /\ ui.timer /\ ~ui.closing
    /\ Reusable(w)
    /\ IF ui.suppressed \/ ui.is_connecting \/ UiConnected
       THEN UNCHANGED <<ui, slots>>
       ELSE ui_connect(w)
    /\ UNCHANGED evq
    /\ UNCHANGED nonReconnectVars

\* _NegotiateConnectWorker.run, step 1 (the triplet or the saved ports).
WorkerNegotiate(w) ==
    /\ slots[w].pc = "negotiate"
    /\ slots' = [slots EXCEPT ![w].pc = "connect"]
    /\ UNCHANGED <<ui, evq>>
    /\ UNCHANGED nonReconnectVars

\* _NegotiateConnectWorker.run, step 2: connect() succeeds and success is
\* emitted, or it fails: connect() calls disconnect() and raises.
WorkerConnect(w, ok) ==
    /\ slots[w].pc = "connect"
    /\ IF ok
       THEN /\ slots' = [slots EXCEPT ![w] = [pc |-> "done", connected |-> TRUE, loop |-> TRUE]]
            /\ evq' = Append(evq, [k |-> "success", w |-> w])
       ELSE /\ slots' = [slots EXCEPT ![w].pc = "emit_failure"]
            /\ evq' = on_disconnect_signal(evq, w)
    /\ UNCHANGED ui
    /\ UNCHANGED nonReconnectVars

\* _NegotiateConnectWorker.run: except Exception -> failure.emit.
WorkerEmitFailure(w) ==
    /\ slots[w].pc = "emit_failure"
    /\ slots' = [slots EXCEPT ![w].pc = "done"]
    /\ evq' = Append(evq, [k |-> "failure", w |-> w])
    /\ UNCHANGED ui
    /\ UNCHANGED nonReconnectVars

\* Queued slots in which _on_connect_success leaves the watchdog alone.
UiDeliver_no_watchdog ==
    /\ evq # <<>>
    /\ evq' = Tail(evq)
    /\ ui' = [ui EXCEPT !.is_connecting = FALSE, !.suppressed = FALSE]
    /\ UNCHANGED slots
    /\ UNCHANGED nonReconnectVars

\* The GUI thread runs the next queued slot: _on_connect_success (which
\* starts the watchdog), _on_connect_failure or _on_disconnect_ui.
UiDeliver ==
    /\ evq # <<>>
    /\ evq' = Tail(evq)
    /\ ui' = [ui EXCEPT !.is_connecting = FALSE, !.suppressed = FALSE,
                        !.timer = IF Head(evq).k = "success" /\ ~ui.closing THEN TRUE ELSE @]
    /\ UNCHANGED slots
    /\ UNCHANGED nonReconnectVars

\* DGXConnection._video_loop ends (recv error, or _connected found false):
\* _connected = False and on_disconnect().
ConnLoopEnd(w) ==
    /\ slots[w].loop
    /\ slots' = [slots EXCEPT ![w].loop = FALSE, ![w].connected = FALSE]
    /\ evq' = on_disconnect_signal(evq, w)
    /\ UNCHANGED ui
    /\ UNCHANGED nonReconnectVars

\* rpc() or _send_input raising: _connected = False, nothing else.
ConnError(w) ==
    /\ slots[w].connected
    /\ slots' = [slots EXCEPT ![w].connected = FALSE]
    /\ UNCHANGED <<ui, evq>>
    /\ UNCHANGED nonReconnectVars

\* MainWindow.closeEvent.
UiClose ==
    /\ ~ui.closing
    /\ ui' = [ui EXCEPT !.closing = TRUE, !.timer = FALSE, !.is_connecting = FALSE]
    /\ UNCHANGED <<slots, evq>>
    /\ UNCHANGED nonReconnectVars

\* ManagerWindow._save: an address is entered.
ManagerSave ==
    /\ ~ui.ip /\ ~ui.closing
    /\ ui' = [ui EXCEPT !.ip = TRUE]
    /\ UNCHANGED <<slots, evq>>
    /\ UNCHANGED nonReconnectVars

\* MainWindow.__init__ with auto_reconnect set: the watchdog is started
\* when an address is configured.
NewUi(ip) ==
    /\ ui = [is_connecting |-> FALSE, suppressed |-> FALSE, closing |-> FALSE,
             timer |-> ip, ip |-> ip, conn |-> 0]
    /\ slots = [w \in WorkerSlots |-> FreeSlot]
    /\ evq = <<>>

ReconnectInit == \E ip \in BOOLEAN : NewUi(ip)

ReconnectIdle == NewUi(FALSE)

ReconnectNext ==
    \/ \E w \in WorkerSlots : UiToggle(w)
    \/ \E w \in WorkerSlots : UiWatchdogTick(w)
    \/ \E w \in WorkerSlots : WorkerNegotiate(w)
    \/ \E w \in WorkerSlots, ok \in BOOLEAN : WorkerConnect(w, ok)
    \/ \E w \in WorkerSlots : WorkerEmitFailure(w)
    \/ UiDeliver
    \/ \E w \in WorkerSlots : ConnLoopEnd(w)
    \/ \E w \in WorkerSlots : ConnError(w)
    \/ UiClose
    \/ ManagerSave

(***************************************************************************)
(* The staging handlers of RPCHandler and the paths they build.            *)
(***************************************************************************)
\* Path.home() and BRIDGE_STAGING = Path.home() / "BridgeStaging"
HomeDir == <<"home">>
BRIDGE_STAGING == HomeDir \o <<"BridgeStaging">>

\* The session_id strings of the requests, split on "/": a leading empty
\* component is an absolute path.
SessionIds == {SessionId, "..", "../Documents", "/etc"}
SessionParts(s) ==
    CASE s = ".."           -> <<"..">>
      [] s = "../Documents" -> <<"..", "Documents">>
      [] s = "/etc"         -> <<"", "etc">>
      [] OTHER              -> <<s>>

StagedNames == {"a.txt", "sub/a.txt", ".."}

\* pathlib's `/`: an absolute right operand replaces the left one.
PathJoin(base, parts) ==
    IF parts # <<>> /\ parts[1] = "" THEN Tail(parts) ELSE base \o parts

\* What the operating system opens for a path: ".." steps to the parent,
\* and the parent of the root is the root.
RECURSIVE ResolvePath(_, _)
ResolvePath(done, rest) ==
    IF rest = <<>> THEN done
    ELSE IF Head(rest) = ".."
    THEN ResolvePath(IF done = <<>> THEN <<>> ELSE SubSeq(done, 1, Len(done) - 1), Tail(rest))
    ELSE ResolvePath(Append(done, Head(rest)), Tail(rest))

\* p is d or lies below d.
Under(p, d) == Len(p) >= Len(d) /\ SubSeq(p, 1, Len(d)) = d

\* Path.exists(): a file, or a directory that holds one.
PathExists(p) == \E f \in fs : Under(f, p)

\* BRIDGE_STAGING / session_id
stage_dir(session_id) == PathJoin(BRIDGE_STAGING, SessionParts(session_id))

\* BRIDGE_STAGING / session_id / Path(filename).name
staged_path(session_id, filename) == stage_dir(session_id) \o <<PathName(filename)>>

\* RPCHandler.handle_place_staged: the staged source is moved away.
StagePlace(session_id, filename) ==
    LET src == ResolvePath(<<>>, staged_path(session_id, filename)) IN
    /\ PathName(filename) # ""
    /\ PathExists(src)
    /\ fs' = {f \in fs : ~Under(f, src)}
    /\ stg' = [op |-> "move", path |-> src]
    /\ UNCHANGED nonStagingVars

\* RPCHandler.handle_get_staging_sha256: the target is opened and read.
StageSha256(session_id, filename) ==
    LET target == ResolvePath(<<>>, staged_path(session_id, filename)) IN
    /\ PathExists(target)
    /\ stg' = [op |-> "read", path |-> target]
    /\ UNCHANGED fs
    /\ UNCHANGED nonStagingVars

\* RPCHandler.handle_cleanup_staging: shutil.rmtree(stage_dir,
\* ignore_errors=True) removes a directory and leaves a plain file.
StageCleanup(session_id) ==
    LET dir == ResolvePath(<<>>, stage_dir(session_id)) IN
    /\ PathExists(dir)
    /\ fs' = IF dir \in fs THEN fs ELSE {f \in fs : ~Under(f, dir)}
    /\ stg' = [op |-> "delete", path |-> dir]
    /\ UNCHANGED nonStagingVars

\* ClientSession._handle_file_receive stores an upload in the folder the
\* request names (here the staging directory of the session).
StageUpload(name) ==
    /\ fs' = fs \cup {BRIDGE_STAGING \o <<SessionId, name>>}
    /\ stg' = [op |-> "none", path |-> <<>>]
    /\ UNCHANGED nonStagingVars

\* No file anywhere and no request served.
StagingIdle ==
    /\ fs = {}
    /\ stg = [op |-> "none", path |-> <<>>]

\* An uploaded file in the session's staging directory, next to the files
\* of the user and of the system.
StagingInit ==
    /\ fs = {BRIDGE_STAGING \o <<SessionId, "a.txt">>,
             HomeDir \o <<"Documents", "a.txt">>,
             HomeDir \o <<"notes.txt">>,
             <<"etc", "a.txt">>}
    /\ stg = [op |-> "none", path |-> <<>>]

StagingNext ==
    \/ \E s \in SessionIds, n \in StagedNames : StagePlace(s, n)
    \/ \E s \in SessionIds, n \in StagedNames : StageSha256(s, n)
    \/ \E s \in SessionIds : StageCleanup(s)
    \/ \E n \in {"a.txt", "b.txt"} : StageUpload(n)

(***************************************************************************)
(* The end of a transfer: the server's final response and the check that   *)
(* DGXConnection.send_file and get_file make on it.                        *)
(***************************************************************************)
\* A JSON object is a record of its members; result.get(key) is None (0)
\* for a member it does not have.
JsonGet(obj, key) == IF key \in DOMAIN obj THEN obj[key] ELSE 0

\* The final response of _handle_file_receive ({"ok": ok, "sha256": ...},
\* send_file's header declares no digest) and of _handle_file_send
\* ({"ok": True, "sha256": ...}).
FinalResponse(fn, remote) ==
    IF fn = "send_file"
    THEN LET r == ReceiveResponse(remote, 0) IN [ok |-> r.ok, sha256 |-> r.sha256]
    ELSE [ok |-> TRUE, sha256 |-> sha256(remote)]

ChecksumMismatch == [ok |-> FALSE, error |-> "checksum_mismatch"]

\* send_file / get_file after the payload: `if result.get("checksum") and
\* result["checksum"] != hasher.hexdigest()` -> checksum_mismatch; else
\* send_file returns the result and get_file returns {"ok": True, ...}.
final_check(fn, result, digest) ==
    IF JsonGet(result, "checksum") # 0 /\ JsonGet(result, "checksum") # digest
    THEN ChecksumMismatch
    ELSE IF fn = "send_file" THEN result ELSE [ok |-> TRUE]

\* The server writes its final response.
VerifyServer ==
    /\ vf.pc = "payload"
    /\ vf' = [vf EXCEPT !.pc = "final", !.resp = FinalResponse(vf.fn, vf.remote)]
    /\ UNCHANGED nonVerifyVars

\* The client reads it and returns.
VerifyClient ==
    /\ vf.pc = "final"
    /\ vf' = [vf EXCEPT !.pc = "returned",
                        !.result = final_check(vf.fn, vf.resp, sha256(vf.local))]
    /\ UNCHANGED nonVerifyVars

NewVerify(fn, remote, local) ==
    vf = [fn |-> fn, remote |-> remote, local |-> local, pc |-> "payload",
          resp |-> [ok |-> FALSE], result |-> [ok |-> FALSE]]

\* A transfer whose payload has been streamed; the two ends hashed the bytes
\* they wrote and read.
VerifyInit == \E fn \in {"send_file", "get_file"}, remote \in Files, local \in Files : NewVerify(fn, remote, local)

VerifyIdle == NewVerify("none", <<>>, <<>>)

VerifyNext ==
    \/ VerifyServer
    \/ VerifyClient

ServerInit ==
    /\ sock = <<>>
    /\ sess = <<>>
    /\ svcSession = 0
    /\ pendingVid = 0
    /\ pendingInp = 0
    /\ capRunning = FALSE
    /\ capCb = 0
    /\ inThreads = {}
    /\ negLog = <<>>

\* The steps of the server's own threads that need nothing from the client.
ServerStep ==
    \/ \E s \in Sessions : RunStart(s) \/ RunHelloBad(s) \/ RunTop(s) \/ RunRecvEnd(s)
    \/ \E t \in inThreads : InputTop(t) \/ InputRecvEnd(t)
    \/ OnFrame

Init == ServerInit /\ InputInit /\ WorkerIdle /\ UploadIdle /\ FrameInit /\ VideoIdle /\ ControlIdle /\ ListenIdle /\ ClientIdle /\ StreamIdle /\ MonitorIdle /\ CaptureIdle /\ ProtoIdle /\ InjectIdle /\ ConvertIdle /\ LockIdle /\ ReconnectIdle /\ StagingIdle /\ VerifyIdle

Next ==
    \/ AcceptRpc
    \/ AcceptVideo
    \/ AcceptInput
    \/ HandleNegotiation
    \/ \E s \in Sessions : RunStart(s)
    \/ \E s \in Sessions : RunHelloOk(s)
    \/ \E s \in Sessions : RunHelloBad(s)
    \/ \E s \in Sessions : RunTop(s)
    \/ \E s \in Sessions : RunRecvLine(s)
    \/ \E s \in Sessions : RunRecvEnd(s)
    \/ \E t \in inThreads : InputTop(t)
    \/ \E t \in inThreads : InputRecvLine(t)
    \/ \E t \in inThreads : InputRecvEnd(t)
    \/ OnFrame
    \/ \E c \in Socks : PeerClose(c)

Spec == Init /\ [][Next]_vars

\* The transfer worker alone.
InitWorker == ServerInit /\ InputInit /\ WorkerInit /\ UploadIdle /\ FrameInit /\ VideoIdle /\ ControlIdle /\ ListenIdle /\ ClientIdle /\ StreamIdle /\ MonitorIdle /\ CaptureIdle /\ ProtoIdle /\ InjectIdle /\ ConvertIdle /\ LockIdle /\ ReconnectIdle /\ StagingIdle /\ VerifyIdle

\* One upload on the control channel of a running Session.
InitUpload == ServerInit /\ InputInit /\ WorkerIdle /\ UploadInit /\ FrameInit /\ VideoIdle /\ ControlIdle /\ ListenIdle /\ ClientIdle /\ StreamIdle /\ MonitorIdle /\ CaptureIdle /\ ProtoIdle /\ InjectIdle /\ ConvertIdle /\ LockIdle /\ ReconnectIdle /\ StagingIdle /\ VerifyIdle
SpecUpload == InitUpload /\ [][UploadNext]_vars

\* The writer threads of the control socket and of the input socket.
InitFrame == ServerInit /\ InputInit /\ WorkerIdle /\ UploadIdle /\ FrameInit /\ VideoIdle /\ ControlIdle /\ ListenIdle /\ ClientIdle /\ StreamIdle /\ MonitorIdle /\ CaptureIdle /\ ProtoIdle /\ InjectIdle /\ ConvertIdle /\ LockIdle /\ ReconnectIdle /\ StagingIdle /\ VerifyIdle
SpecFrame == InitFrame /\ [][FrameNext]_vars

\* The capture thread's frame writes and the client's video reader.
InitVideo == ServerInit /\ InputInit /\ WorkerIdle /\ UploadIdle /\ FrameInit /\ VideoInit /\ ControlIdle /\ ListenIdle /\ ClientIdle /\ StreamIdle /\ MonitorIdle /\ CaptureIdle /\ ProtoIdle /\ InjectIdle /\ ConvertIdle /\ LockIdle /\ ReconnectIdle /\ StagingIdle /\ VerifyIdle
SpecVideo == InitVideo /\ [][VideoNext]_vars

\* The control request loop with its handlers.
InitControl == ServerInit /\ InputInit /\ WorkerIdle /\ UploadIdle /\ FrameInit /\ VideoIdle /\ ControlInit /\ ListenIdle /\ ClientIdle /\ StreamIdle /\ MonitorIdle /\ CaptureIdle /\ ProtoIdle /\ InjectIdle /\ ConvertIdle /\ LockIdle /\ ReconnectIdle /\ StagingIdle /\ VerifyIdle
SpecControl == InitControl /\ [][ControlNext]_vars

\* The listener threads and the negotiation replies.
InitListen == ServerInit /\ InputInit /\ WorkerIdle /\ UploadIdle /\ FrameInit /\ VideoIdle /\ ControlIdle /\ ListenInit /\ ClientIdle /\ StreamIdle /\ MonitorIdle /\ CaptureIdle /\ ProtoIdle /\ InjectIdle /\ ConvertIdle /\ LockIdle /\ ReconnectIdle /\ StagingIdle /\ VerifyIdle
SpecListen == InitListen /\ [][ListenNext]_vars

\* The client's connection manager.
InitClient == ServerInit /\ InputInit /\ WorkerIdle /\ UploadIdle /\ FrameInit /\ VideoIdle /\ ControlIdle /\ ListenIdle /\ ClientInit /\ StreamIdle /\ MonitorIdle /\ CaptureIdle /\ ProtoIdle /\ InjectIdle /\ ConvertIdle /\ LockIdle /\ ReconnectIdle /\ StagingIdle /\ VerifyIdle
SpecClient == InitClient /\ [][ClientNext]_vars
\* The control socket as a stream.
InitStream == ServerInit /\ InputInit /\ WorkerIdle /\ UploadIdle /\ FrameInit /\ VideoIdle /\ ControlIdle /\ ListenIdle /\ ClientIdle /\ StreamInit /\ MonitorIdle /\ CaptureIdle /\ ProtoIdle /\ InjectIdle /\ ConvertIdle /\ LockIdle /\ ReconnectIdle /\ StagingIdle /\ VerifyIdle

SpecStream == InitStream /\ [][StreamNext]_vars

\* The resolution watcher.
InitMonitor == ServerInit /\ InputInit /\ WorkerIdle /\ UploadIdle /\ FrameInit /\ VideoIdle /\ ControlIdle /\ ListenIdle /\ ClientIdle /\ StreamIdle /\ MonitorInit /\ CaptureIdle /\ ProtoIdle /\ InjectIdle /\ ConvertIdle /\ LockIdle /\ ReconnectIdle /\ StagingIdle /\ VerifyIdle
SpecMonitor == InitMonitor /\ [][MonitorNext]_vars

\* ScreenCapture and its threads.
InitCapture == ServerInit /\ InputInit /\ WorkerIdle /\ UploadIdle /\ FrameInit /\ VideoIdle /\ ControlIdle /\ ListenIdle /\ ClientIdle /\ StreamIdle /\ MonitorIdle /\ CaptureInit /\ ProtoIdle /\ InjectIdle /\ ConvertIdle /\ LockIdle /\ ReconnectIdle /\ StagingIdle /\ VerifyIdle
SpecCapture == InitCapture /\ [][CaptureNext]_vars

\* run() on one control connection.
InitProto == ServerInit /\ InputInit /\ WorkerIdle /\ UploadIdle /\ FrameInit /\ VideoIdle /\ ControlIdle /\ ListenIdle /\ ClientIdle /\ StreamIdle /\ MonitorIdle /\ CaptureIdle /\ ProtoInit /\ InjectIdle /\ ConvertIdle /\ LockIdle /\ ReconnectIdle /\ StagingIdle /\ VerifyIdle
SpecProto == InitProto /\ [][ProtoNext]_vars

\* _input_loop and the injector.
InitInject == ServerInit /\ InputInit /\ WorkerIdle /\ UploadIdle /\ FrameInit /\ VideoIdle /\ ControlIdle /\ ListenIdle /\ ClientIdle /\ StreamIdle /\ MonitorIdle /\ CaptureIdle /\ ProtoIdle /\ InjectInit /\ ConvertIdle /\ LockIdle /\ ReconnectIdle /\ StagingIdle /\ VerifyIdle
SpecInject == InitInject /\ [][InjectNext]_vars

\* FileConverter on one file.
InitConvert == ServerInit /\ InputInit /\ WorkerIdle /\ UploadIdle /\ FrameInit /\ VideoIdle /\ ControlIdle /\ ListenIdle /\ ClientIdle /\ StreamIdle /\ MonitorIdle /\ CaptureIdle /\ ProtoIdle /\ InjectIdle /\ ConvertInit /\ LockIdle /\ ReconnectIdle /\ StagingIdle /\ VerifyIdle
SpecConvert == InitConvert /\ [][ConvertNext]_vars

\* The client's control socket and its mutex.
InitLock == ServerInit /\ InputInit /\ WorkerIdle /\ UploadIdle /\ FrameInit /\ VideoIdle /\ ControlIdle /\ ListenIdle /\ ClientIdle /\ StreamIdle /\ MonitorIdle /\ CaptureIdle /\ ProtoIdle /\ InjectIdle /\ ConvertIdle /\ LockInit /\ ReconnectIdle /\ StagingIdle /\ VerifyIdle
SpecLock == InitLock /\ [][LockNext]_vars

\* MainWindow and its connect workers.
InitReconnect == ServerInit /\ InputInit /\ WorkerIdle /\ UploadIdle /\ FrameInit /\ VideoIdle /\ ControlIdle /\ ListenIdle /\ ClientIdle /\ StreamIdle /\ MonitorIdle /\ CaptureIdle /\ ProtoIdle /\ InjectIdle /\ ConvertIdle /\ LockIdle /\ ReconnectInit /\ StagingIdle /\ VerifyIdle
SpecReconnect == InitReconnect /\ [][ReconnectNext]_vars
\* The watchdog QTimer fires, every worker and video thread moves on and
\* the GUI thread's event loop runs its queued slots.
ReconnectFairness ==
    /\ WF_vars(\E w \in WorkerSlots : UiWatchdogTick(w))
    /\ WF_vars(\E w \in WorkerSlots : WorkerNegotiate(w))
    /\ WF_vars(\E w \in WorkerSlots, ok \in BOOLEAN : WorkerConnect(w, ok))
    /\ WF_vars(\E w \in WorkerSlots : WorkerEmitFailure(w))
    /\ WF_vars(\E w \in WorkerSlots : ConnLoopEnd(w))
    /\ WF_vars(UiDeliver)
SpecReconnectLive == SpecReconnect /\ ReconnectFairness

\* The staging handlers.
InitStaging == ServerInit /\ InputInit /\ WorkerIdle /\ UploadIdle /\ FrameInit /\ VideoIdle /\ ControlIdle /\ ListenIdle /\ ClientIdle /\ StreamIdle /\ MonitorIdle /\ CaptureIdle /\ ProtoIdle /\ InjectIdle /\ ConvertIdle /\ LockIdle /\ ReconnectIdle /\ StagingInit /\ VerifyIdle
SpecStaging == InitStaging /\ [][StagingNext]_vars

\* The final check of a transfer.
InitVerify == ServerInit /\ InputInit /\ WorkerIdle /\ UploadIdle /\ FrameInit /\ VideoIdle /\ ControlIdle /\ ListenIdle /\ ClientIdle /\ StreamIdle /\ MonitorIdle /\ CaptureIdle /\ ProtoIdle /\ InjectIdle /\ ConvertIdle /\ LockIdle /\ ReconnectIdle /\ StagingIdle /\ VerifyInit
SpecVerify == InitVerify /\ [][VerifyNext]_vars

SpecWorker == InitWorker /\ [][WorkerNext]_vars

\* The client input pipeline alone.
InitInput == ServerInit /\ InputInit /\ WorkerIdle /\ UploadIdle /\ FrameInit /\ VideoIdle /\ ControlIdle /\ ListenIdle /\ ClientIdle /\ StreamIdle /\ MonitorIdle /\ CaptureIdle /\ ProtoIdle /\ InjectIdle /\ ConvertIdle /\ LockIdle /\ ReconnectIdle /\ StagingIdle /\ VerifyIdle
SpecInput == InitInput /\ [][InputNext]_vars

\* The MouseFlusher thread keeps running: a step it can take is taken.
SpecInputLive == SpecInput /\ WF_vars(FlusherRead) /\ WF_vars(FlusherSend)

\* Fairness of the server's own threads: each thread that can take a step
\* without anything from the client eventually takes it.
ThreadSpace == [s : 1..MaxConns, pc : {"top", "recv"}, c : 0..MaxConns]

ServerFairness ==
    /\ \A s \in 1..MaxConns :
          /\ WF_vars(s \in Sessions /\ RunStart(s))
          /\ WF_vars(s \in Sessions /\ RunHelloBad(s))
          /\ WF_vars(s \in Sessions /\ RunTop(s))
          /\ WF_vars(s \in Sessions /\ RunRecvEnd(s))
    /\ \A t \in ThreadSpace : WF_vars(InputTop(t)) /\ WF_vars(InputRecvEnd(t))
    /\ WF_vars(OnFrame)

SpecLive == Init /\ [][Next]_vars /\ ServerFairness

(***************************************************************************)
(* Claims about the session supervisor.                                    *)
(***************************************************************************)

\* C1: while a Session exists (control connection accepted, sockets not yet
\* closed by teardown), every negotiate request handled on the discovery
\* port is answered "session already active", never with the port triplet.
C1_NegotiationRejectedWhileSessionExists ==
    \A i \in 1..Len(negLog) :
        negLog[i].exists => negLog[i].reply = "session already active"

\* C2: at most one Session is alive (running) on the server at any time; a
\* control connection accepted while the current Session runs does not
\* become a second running Session.
C2_AtMostOneSessionAlive ==
    Cardinality({s \in Sessions : sess[s].running}) <= 1

\* The sockets a Session holds.
SessionSocks(s) == {sess[s].rpc, sess[s].vid, sess[s].inp} \ {0}

\* One of the Session's channel sockets was closed by the peer after the
\* Session's run() had started.
ChannelDown(s) ==
    /\ s \in Sessions
    /\ sess[s].pc # "new"
    /\ \E c \in SessionSocks(s) : ~sock[c].peer

\* _cleanup has run for the Session: it is marked stopped, the capture pump
\* was stopped and the sockets it held were closed.
TornDown(s) ==
    /\ s \in Sessions
    /\ sess[s].pc = "done"
    /\ ~sess[s].running

\* C7: when any one of a Session's three channel sockets closes or fails,
\* the Session eventually marks itself stopped and its sockets are closed,
\* so that the supervisor accepts negotiation again.
C7_ChannelCloseLeadsToTeardown ==
    \A s \in 1..MaxConns : ChannelDown(s) ~> TornDown(s)

\* C8: every accepted video or input socket that is still open at the server
\* is owned: it is parked in its pending slot, or it is the current video or
\* input socket of a Session that has not been torn down.  (A socket attached
\* to a stopped Session, or overwritten in a Session by a later connection,
\* is open and unowned.)
C8_ChannelSocketsOwned ==
    \A c \in Socks :
        (sock[c].kind # "rpc" /\ sock[c].srv) =>
            \/ c = pendingVid
            \/ c = pendingInp
            \/ \E s \in Sessions :
                  /\ sess[s].pc # "done"
                  /\ c \in {sess[s].vid, sess[s].inp}


(***************************************************************************)
(* Claims about the client input pipeline.                                 *)
(***************************************************************************)

\* C3: motion coalescing never reorders a motion across a click: for every
\* press/release/scroll envelope on the input socket, the position recorded
\* by the latest send_mouse_move call made before that click was written to
\* the socket before the click's envelope.
C3_MotionNotReorderedAcrossClick ==
    \A i \in 1..Len(inputWire) :
        (inputWire[i].type \in ClickKinds /\ inputWire[i].after > 0) =>
            \E j \in 1..(i - 1) :
                /\ inputWire[j].type = "mouse_move"
                /\ inputWire[j].seq = inputWire[i].after

(***************************************************************************)
(* Claims about the transfer worker.                                       *)
(***************************************************************************)

\* The item has passed the verification step of _process_item.
Verified(i) == items[i].integrity_ok # "none"

ReceiveAnswered ==
    /\ up.kind = "proto"
    /\ srv.handler = "file_receive"
    /\ FolderOf([folder |-> up.folder]) \in LegalFolders
    /\ srv.final # NoResp

C5_WitnessShort ==
    /\ ReceiveAnswered
    /\ 0 < Len(srv.got) /\ Len(srv.got) < Len(up.file)
    /\ ~srv.final.ok

\* C6: an upload started by send_file to BridgeStaging/<session_id> is
\* handled by the server as a file_send for a legal folder: when send_file
\* returns, the server had replied `ready`, had written exactly the file's
\* bytes to the destination, and the result is {ok, sha256} of those bytes.
C6_SendFileHandledAsFileSend ==
    (up.kind = "send_file" /\ up.pc = "returned") =>
        /\ srv.handler = "file_receive"
        /\ srv.written = up.file
        /\ up.result.sha256 = sha256(up.file)

(***************************************************************************)
(* Claims about envelope framing.                                          *)
(***************************************************************************)

\* The lines of a byte stream: the stream split on "\n" (the text after the
\* last newline, still being written, is left out).
RECURSIVE SplitLines(_, _)
SplitLines(bytes, cur) ==
    IF bytes = <<>> THEN <<>>
    ELSE IF Head(bytes) = "\n" THEN <<cur>> \o SplitLines(Tail(bytes), <<>>)
    ELSE SplitLines(Tail(bytes), Append(cur, Head(bytes)))

\* json.loads accepts the line as one object.
IsJsonObject(line) ==
    \E w \in Writers : line = <<"{", w, "}">>

\* C9: envelope framing holds under concurrent writers: on the control and
\* on the input socket every envelope is written contiguously, so the byte
\* stream always splits on newline into complete JSON objects.
C9_FramingUnderConcurrentWriters ==
    \A s \in {"control", "input"} :
        LET lines == SplitLines(wire[s], <<>>) IN
        \A i \in 1..Len(lines) : IsJsonObject(lines[i])

(***************************************************************************)
(* Claims about the video channel.                                         *)
(***************************************************************************)

\* C10: the video reader stays frame-aligned: every 4 bytes _video_loop
\* interprets as a length header are the header bytes of one frame (a
\* skipped frame's payload is discarded, not read as the next header).
C10_VideoReaderFrameAligned ==
    vloop.aligned

\* C17: a video or input connection that arrives while its channel's
\* parking slot is occupied closes the older parked connection and takes the
\* slot: before a Session exists the only open video (input) socket is the
\* parked one, and once a Session exists nothing is left parked.
C17_ParkingSlotSingle ==
    /\ Len(sess) = 0 =>
          \A c \in Socks : sock[c].srv =>
              /\ sock[c].kind = "vid" => c = pendingVid
              /\ sock[c].kind = "inp" => c = pendingInp
    /\ pendingVid # 0 => (sock[pendingVid].kind = "vid" /\ sock[pendingVid].srv)
    /\ pendingInp # 0 => (sock[pendingInp].kind = "inp" /\ sock[pendingInp].srv)
    /\ Len(sess) > 0 => (pendingVid = 0 /\ pendingInp = 0)

C17_Witness ==
    /\ Len(sess) = 0
    /\ pendingVid # 0
    /\ \E c \in Socks : c # pendingVid /\ sock[c].kind = "vid" /\ ~sock[c].srv /\ sock[c].peer

\* C18: every successful negotiation returns the same triplet, and the three
\* advertised ports are the ports on which the control, video and input
\* listeners are bound and accepting.
C18_TripletIsBoundPorts ==
    \A i \in 1..Len(negReplies) :
        /\ negReplies[i].accepting["rpc"]
        /\ negReplies[i].accepting["video"]
        /\ negReplies[i].accepting["input"]
        /\ \A j \in 1..Len(negReplies) :
              /\ negReplies[j].rpc = negReplies[i].rpc
              /\ negReplies[j].video = negReplies[i].video
              /\ negReplies[j].input = negReplies[i].input

(***************************************************************************)
(* Claims about control requests.                                          *)
(***************************************************************************)

\* A request the protocol does not define: a type that is not a string or
\* names no handler, a member of the wrong JSON type, or a missing
\* identifying member of place_staged / file_get.
Malformed(msg) ==
    \/ msg["type"].kind # "str"
    \/ msg["type"].s \notin HandlerTypes \cup {"file_send", "file_get"}
    \/ \E k \in {"session_id", "filename", "destination"} : msg[k].kind \notin {"str", "absent"}
    \/ msg["metadata"].kind \notin {"dict", "absent"}
    \/ msg["size"].kind \notin {"int", "absent"}
    \/ msg["type"].s = "place_staged" /\ \E k \in {"session_id", "filename", "destination"} : msg[k].kind = "absent"
    \/ msg["type"].s = "file_get" /\ msg["filename"].kind = "absent"

\* C11: no single request ends the Session: whatever JSON object arrives,
\* run() is still serving afterwards, and a malformed one is answered by
\* exactly one {ok: false, error} response.
C11_NoRequestEndsSession ==
    ctl.handled > 0 =>
        /\ ctl.pc # "crashed"
        /\ Malformed(ctl.req) => (Len(ctl.resps) = 1 /\ ~ctl.resps[1].ok)

\* C16: after any sequence of construction and set_capture_params requests
\* with integer fps and quality, fps is within [1,120] and quality within
\* [40,100].
C16_CaptureParamsClamped ==
    /\ capture.fps \in FPS_MIN..FPS_MAX
    /\ capture.quality \in QUALITY_MIN..QUALITY_MAX

\* The last request served is a place_staged whose filename is a string
\* containing a path separator.
PlaceWithSeparator ==
    /\ ctl.handled > 0
    /\ ctl.req["type"] = Str("place_staged")
    /\ ctl.req["filename"].kind = "str"
    /\ Len(PathParts(ctl.req["filename"].s)) > 1

\* C19: place_staged with a filename that contains a path
\* separator returns {ok: false, error} and moves no file.
C19_SeparatorRejected ==
    PlaceWithSeparator => (~ctl.resps[1].ok /\ ctl.did = {})

(***************************************************************************)
(* Claims about the client's connection manager.                           *)
(***************************************************************************)

\* C12: when negotiation fails (connect error, timeout or an {ok: false}
\* reply) the client aborts the attempt without opening a control, video or
\* input socket.
C12_FailedNegotiationOpensNoSocket ==
    (win.pc \in {"success", "failure"} /\ ~win.neg_ok) => win.opened = 0

\* C13 as stated: with auto-reconnect, after n consecutive failed attempts
\* the retry interval is min(60, base * 2^(n-1)), base the configured
\* reconnect interval.
C13_BackoffDoublesToCap ==
    (config.auto_reconnect /\ win.fail_count >= 1) =>
        win.interval = Min(BACKOFF_CAP, config.reconnect_interval * 2 ^ (win.fail_count - 1))

\* C13 as the window computes it: the base is the configured interval but
\* at least 3 s; the interval is the base after a success, doubles on each of
\* the next four consecutive failures and is capped at 60 s, which makes it
\* 48 s from the fifth failure on for a base of 3 s and 60 s for any larger
\* base; it is at least 30 s by the fifth failure.
C13_BackoffDoublesFourTimes ==
    LET base == IF config.reconnect_interval < 3 THEN 3 ELSE config.reconnect_interval
        n == win.fail_count
        doubled == IF n >= 5 THEN base * 16 ELSE base * 2 ^ (n - 1)
    IN /\ n = 0 => win.interval = base
       /\ n >= 1 => win.interval = (IF doubled > 60 THEN 60 ELSE doubled)
       /\ n >= 5 => win.interval >= 30
       /\ ~config.auto_reconnect => n = 0

C13_Witness ==
    /\ config.auto_reconnect
    /\ config.reconnect_interval = 1
    /\ win.fail_count = 6
    /\ win.interval = 48

\* C14: when a control RPC exceeds its deadline, rpc() returns
\* {ok: false, error: "timeout"} and the connection is marked dead.
C14_RpcTimeoutMarksDead ==
    cli.last = "timeout" => ~cli.connected

\* C15: on any socket error on the control, video or input channel the
\* connection manager is Disconnected, all three sockets are closed and a
\* disconnect event has been emitted.
C15_SocketErrorDisconnects ==
    cli.err # {} =>
        /\ ~cli.connected
        /\ cli.rpc = "none" /\ cli.video = "none" /\ cli.input = "none"
        /\ cli.events > 0

(***************************************************************************)
(* Claims about the life cycle of a TransferItem.                          *)
(***************************************************************************)
TerminalStatus == {"failed", "bridge", "done"}

StatusSteps(allowed) ==
    \A i \in 1..Len(items) :
        items'[i].status # items[i].status =>
            \/ <<items[i].status, items'[i].status>> \in allowed
            \/ items'[i].status = "failed" /\ items[i].status \notin TerminalStatus

FinishedItem(i) ==
    /\ items[i].status \in TerminalStatus
    /\ items[i].status = "bridge" => ~autoPlace
    /\ items[i].status = "done" => autoPlace
    /\ items[i].status = "failed" <=>
          (\E k \in 1..Len(items[i].shown) : items[i].shown[k] = "failed")
    /\ items[i].integrity_ok = "false" => items[i].status = "failed"
    /\ items[i].shown # <<>> /\ items[i].shown[Len(items[i].shown)] = items[i].status

FileReply(file) ==
    <<LineUnit(Envelope("file_data", TRUE, Len(file), 1, ""))>>
    \o [i \in 1..Len(file) |-> ByteUnit(file[i])]
    \o <<LineUnit(Envelope("", TRUE, 0, 1, ""))>>

\* C21: when DGXConnection.get_file has returned for a file that exists in
\* the folder, the server handled the request as file_get, wrote the
\* file_data header, the file's N bytes and the final line, and the client
\* wrote exactly those N bytes to the local destination.
C21_GetFileHandledAsFileGet ==
    (dcl.kind = "get_file" /\ dcl.pc = "returned" /\ dsrv.file # <<>> /\ dsrv.pushes = 0)
        => /\ dsrv.handler = "file_send"
           /\ stream.log = FileReply(dsrv.file)
           /\ dcl.written = dsrv.file

PushTypes == {"cursor_shape", "resolution_changed"}

IsPush(u) == u.k = "line" /\ u.msg.type \in PushTypes

\* C29: from the file_data header of a file_get until its final line the
\* server writes nothing else to the control socket: what follows the
\* header in the socket is the file's bytes and the final line, with no
\* cursor_shape or resolution_changed push among them.
C29_TransferOwnsControlSocket ==
    \A h \in 1..Len(stream.log) :
        (stream.log[h].k = "line" /\ stream.log[h].msg.type = "file_data")
            => \A j \in (h + 1)..Min(Len(stream.log), h + stream.log[h].msg.size + 1) :
                   ~IsPush(stream.log[j])

\* C30: every rpc() call returns the response the server produced for that
\* same request: never a push envelope, never the response to an earlier
\* call.
C30_RpcReturnsOwnResponse ==
    (dcl.kind = "rpc" /\ dcl.pc = "idle" /\ dcl.call >= 1)
        => /\ dcl.result.type \notin PushTypes
           /\ dcl.result.call = dcl.call

\* ---- motion coalescing ----
MoveIndexes == {i \in 1..Len(inputWire) : inputWire[i].type = "mouse_move"}

\* The last recorded position is on the wire.
LastMoveSent ==
    \E i \in MoveIndexes : inputWire[i].seq = mouseSlot.seq /\ inputWire[i].pos = mouseSlot.pos

\* Every mouse_move envelope belongs to a send_mouse_move call of its own
\* (so there are never more envelopes than calls), the flusher is about to
\* send only a position it took from a dirty slot and has not sent yet.
OneMovePerDirtyTransition ==
    /\ \A i, j \in MoveIndexes : inputWire[i].seq = inputWire[j].seq => i = j
    /\ \A i \in MoveIndexes : inputWire[i].seq \in 1..mouseSlot.seq
    /\ flusher.pc = "send" =>
          /\ flusher.slot.seq >= 1
          /\ \A i \in MoveIndexes : inputWire[i].seq # flusher.slot.seq

\* A mouse_move is written only by the flusher, with the position that was
\* the latest when it took the slot; a clean slot makes it send nothing.
MoveFromDirtySlotOnly ==
    /\ (flusher'.pc = "send" /\ flusher.pc # "send") => (mouseDirty /\ flusher'.slot = mouseSlot)
    /\ (Len(inputWire') > Len(inputWire) /\ inputWire'[Len(inputWire')].type = "mouse_move")
          => (flusher.pc = "send" /\ inputWire'[Len(inputWire')].pos = flusher.slot.pos)

\* C22: the flusher emits one mouse_move per dirty transition, carrying the
\* latest recorded coordinates: never more envelopes than send_mouse_move
\* calls, nothing sent while the slot is clean, and the last recorded
\* position is eventually sent while the connection stays up.
C22_MotionCoalesced ==
    /\ []OneMovePerDirtyTransition
    /\ [][MoveFromDirtySlotOnly]_vars
    /\ <>[](mouseSlot.seq >= 1 => (LastMoveSent \/ ~connected))

\* Two positions were recorded, the first was never sent, the last one is.
C22_Witness ==
    /\ mouseSlot.seq >= 2 /\ ~mouseDirty /\ connected
    /\ LastMoveSent
    /\ Cardinality(MoveIndexes) = 1

\* ---- the resolution watcher ----

\* C23: when the display-size query fails on a tick, the watcher keeps its
\* previous current value and invokes no change callback (no
\* resolution_changed push).
C23_FailedQueryKeepsCurrent ==
    [][(mon'.ticks > mon.ticks /\ mon'.failed)
          => (mon'.current = mon.current /\ mon'.pushed = mon.pushed)]_vars

\* ---- ScreenCapture ----

\* C24: across any sequence of capture start and stop calls at most one
\* capture thread is alive.
C24_AtMostOneCaptureThread == Cardinality(Alive) <= 1

\* C25: with no start() or stop() call in progress, ScreenCapture.running
\* is true exactly when a capture thread exists that has not exited.
C25_RunningIffThreadAlive ==
    scap.caller = "idle" => (scap.running <=> Alive # {})

\* ---- protocol errors on the control channel ----

\* C26: a protocol error on the control channel (a malformed envelope, a
\* wrong type at the hello handshake point, an oversized line) makes the
\* server close the connection: it reads no further request from it.
C26_ProtocolErrorClosesConnection ==
    pconn.errors > 0 => pconn.pc = "closed"

\* ---- failing input events ----

\* C27: a failing input event (an injector exception, an envelope missing a
\* required field) does not kill the input loop: it is still there to
\* dispatch the envelopes that follow on the same socket.
C27_FailingEventKeepsInputLoop == iloop.pc # "dead"

\* ---- CRLF stripping ----

\* C28: for every readable text file that contains CRLF line endings, the
\* file prepared by FileConverter.prepare / prepare_to_dir (CRLF conversion
\* on, no I/O error) contains no carriage-return/line-feed pair.
C28_PreparedTextHasNoCRLF ==
    (prepared.by # "none" /\ prepared.convert_crlf
        /\ doc.hint = "text" /\ doc.readable /\ doc.io_ok /\ ContainsCRLF(doc.bytes))
        => ~ContainsCRLF(prepared.bytes)

\* ---- recv_line and the bytes after the newline ----

\* Index of the first line unit of a stream that holds one.
FirstLine(out) == CHOOSE i \in 1..Len(out) :
                      out[i].k = "line" /\ \A j \in 1..(i - 1) : out[j].k # "line"

\* A step in which the client takes units off the socket with recv_line.
LineReadStep ==
    /\ dcl.pc # "body"
    /\ Len(stream'.out) < Len(stream.out)
    /\ stream'.log = stream.log /\ stream'.req = stream.req

\* C31: recv_line consumes from the socket only the bytes up to and
\* including the first newline: what arrived after it in the same read
\* stays available to the next read.
C31_RecvLineKeepsRest ==
    [][LineReadStep =>
          stream'.out = SubSeq(stream.out, FirstLine(stream.out) + 1, Len(stream.out))]_vars

\* ---- payload only after ready ----

\* C32: DGXConnection.send_file has put payload bytes on the control socket
\* only if the server's {ok: true, type: "ready"} reply was there for it to
\* read first; after a rejected header no payload byte is sent.
C32_PayloadOnlyAfterReady ==
    (up.kind = "send_file" /\ up.sent > 0)
        => \E i \in 1..Len(s2c) : s2c[i].ok /\ s2c[i].type = "ready"

\* ---- the client's control socket ----

\* C33: at any time at most one of rpc(), send_file(), get_file() and the
\* push reader is reading from or writing to the control socket, each of
\* them holds the RPC mutex while it does, and the push reader reads only
\* after its try-lock succeeded.
C33_ControlSocketExclusive ==
    /\ Cardinality(OnSocket) <= 1
    /\ \A t \in OnSocket : lk.holder = t

\* The push reader found the mutex taken by a call in flight and went back
\* to select while the call reads its response.
C33_Witness ==
    /\ lk.holder = "rpc" /\ lk.pc["rpc"] = 2
    /\ lk.pc[PushReader] = "select"
    /\ lk.pc["get_file"] = -1

\* ---- Session creation and the hello handshake ----

\* C34: a control connection becomes the supervisor's Session only after
\* its hello has been read: one whose hello has not (yet) arrived is not
\* the supervisor's Session and cannot make negotiation answer "session
\* already active".
C34_SessionOnlyAfterHello ==
    svcSession # 0 => sess[svcSession].pc \notin {"new", "hello"}

\* ---- parked connections fused into a new Session ----

\* C35: while a Session runs with an input socket that is open at both
\* ends, an input-loop thread of that Session is there to read it.
C35_FusedInputServiced ==
    \A s \in Sessions :
        (sess[s].running /\ sess[s].pc \in {"top", "recv"}
            /\ sess[s].inp # 0 /\ ~Broken(sess[s].inp))
            => \E t \in inThreads : t.s = s

\* ---- the capture pump of the running Session ----

\* C36: whenever the supervisor's current Session is running (past its
\* handshake), the capture pump is running and delivers its frames to that
\* Session.
C36_PumpServesCurrentSession ==
    (svcSession # 0 /\ sess[svcSession].running /\ sess[svcSession].pc \in {"top", "recv"})
        => (capRunning /\ capCb = svcSession)

\* ---- connect attempts of the client ----

\* C37: at most one negotiate-then-connect attempt of the client is in
\* flight at any time.
C37_OneAttemptInFlight ==
    Cardinality({w \in WorkerSlots : WorkerRunning(w)}) <= 1

\* Some worker is in its negotiation step.
Negotiating == \E w \in WorkerSlots : slots[w].pc = "negotiate"

\* C38: with auto-reconnect on and an address set, once a connection has
\* been established, every later state without a connection (the loss, and
\* each failed attempt after it) is followed by a new negotiation, until a
\* connection succeeds or the window closes.
C38_WatchdogReconnects ==
    [](UiConnected => [](~UiConnected => <>(Negotiating \/ UiConnected \/ ui.closing)))

C38_Witness ==
    /\ ui.timer /\ ui.conn # 0 /\ slots[ui.conn].pc = "negotiate"
    /\ \E w \in WorkerSlots : w # ui.conn /\ slots[w].pc = "done" /\ ~slots[w].connected

\* ---- staging paths ----

\* C39: every path that place_staged, get_staging_sha256 or
\* cleanup_staging reads, moves or deletes lies inside the staging root
\* ~/BridgeStaging, whatever the session_id and the filename.
C39_StagingConfined ==
    stg.op # "none" => (Under(stg.path, BRIDGE_STAGING) /\ stg.path # BRIDGE_STAGING)

\* ---- the final check of a transfer ----

\* C40: send_file and get_file return {ok: false, error:
\* "checksum_mismatch"} whenever the digest in the server's final response
\* differs from the digest the client computed, and report success only
\* when the two are equal.
C40_MismatchReported ==
    vf.pc = "returned" =>
        IF vf.resp.sha256 # sha256(vf.local)
        THEN vf.result = ChecksumMismatch
        ELSE vf.result.ok = vf.resp.ok

=============================================================================
